---- MODULE Spec2Model ----
(***************************************************************************)
(* A model of the DOOR rate-oracle pipeline: the CircuitBreaker and the    *)
(* two withRetry helpers of the pusher and the collectors, the five source *)
(* collectors, validateRates / calculateDOR, and the runUpdate cycle.      *)
(*                                                                         *)
(* The module holds several specifications over one set of variables:      *)
(*   BreakerSpec the CircuitBreaker under overlapping execute() calls      *)
(*   SeqSpec     the CircuitBreaker when execute() calls are sequential    *)
(*   AggSpec     validateRates and calculateDOR applied to the lists of    *)
(*               observations that the collectors can produce              *)
(*   RetrySpec   the two withRetry helpers around an unreliable operation  *)
(*   CollectSpec collectAllRates: the five collectors running concurrently *)
(*   Spec        the oracle process: runUpdate cycles, one after another   *)
(*   CappedSpec  the same cycles with a maxGasPrice in the pusher's config *)
(*   LiveSpec    the cycles of Spec when every awaited call settles        *)
(*   CronSpec    runCron: the initial cycle and the cycles the schedule    *)
(*               starts, which may be under way together                   *)
(* Each specification leaves the variables of the others unchanged.        *)
(***************************************************************************)
EXTENDS Integers, Sequences, FiniteSets, TLC

VARIABLES
  cb,         \* the CircuitBreaker's private fields
  now,        \* Date.now(), in ms since the breaker was constructed
  running,    \* ids of the execute() calls awaiting their fn()
  ev,         \* history: the last thing that happened
  streak,     \* history: op failures since the last op success / reset()
  hoInvoked,  \* history: operations invoked in the current HALF_OPEN period
  probe,      \* history: running calls admitted by the OPEN -> HALF_OPEN move
  recovered,  \* the guarded operation has recovered: it fails no more
  aggIn,      \* the RateData[] handed to validateRates / calculateDOR
  aggOut,     \* what the function applied to aggIn returned
  rtCfg,      \* which withRetry is running, and its config argument
  rt,         \* the locals and the outcome of that withRetry call
  rtLog,      \* history: how each invocation of fn() settled
  col,        \* the five collector tasks started by collectAllRates
  lastFetch,  \* history: per source, endpoint and outcome of its latest fetch
  collected,  \* what collectAllRates returned, once it has (and history:
              \* a collector settled while one earlier in the array had not)
  oracleConfig, \* the module-level `config` object of the oracle entry point
  run,        \* the runUpdate call under way: its locals and its position
  pusher,     \* the RatePusher constructed by the runUpdate call under way
  hist,       \* history of the cycles: pushes failed in a row, txs submitted
  cron        \* runCron: its position and the runUpdate calls it has started

breakerVars == <<cb, running, ev, streak, hoInvoked, probe, recovered>>
aggVars == <<aggIn, aggOut>>
retryVars == <<rtCfg, rt, rtLog>>
collectVars == <<col, lastFetch, collected>>
runVars == <<oracleConfig, run, pusher, hist, cron>>
vars == <<cb, now, running, ev, streak, hoInvoked, probe, recovered,
          aggIn, aggOut, rtCfg, rt, rtLog, col, lastFetch, collected,
          oracleConfig, run, pusher, hist, cron>>

(***************************************************************************)
(* Bounds of the model.                                                    *)
(***************************************************************************)
MaxTicks == 8        \* the clock stops after this many ticks
MaxInFlight == 3     \* execute() calls that may overlap in BreakerSpec
MaxRetries == 7      \* largest maxRetries handed to withRetry in RetrySpec
MaxCycles == 4       \* runUpdate calls made during the life of the process
MaxOverlap == 2      \* cron callbacks that may be under way together
TickMs == 60 * 1000  \* the clock advances one minute at a time

(***************************************************************************)
(* JavaScript numbers: a finite value (an integer here), NaN or Infinity.  *)
(***************************************************************************)
Num(n) == [t |-> "num", v |-> n]
NaN == [t |-> "nan", v |-> 0]
Infinity == [t |-> "inf", v |-> 0]
Undefined == [t |-> "undef", v |-> 0]

\* a < n and a > n for a number a and a finite n: false whenever a is NaN
JsLt(a, n) == a.t = "num" /\ a.v < n
JsGt(a, n) == (a.t = "num" /\ a.v > n) \/ a.t = "inf"

\* Math.round(n / d) for integers n and d > 0: halves round towards +Infinity
MathRound(n, d) == (2 * n + d) \div (2 * d)

(***************************************************************************)
(* RateSourceId and RateData (collectors)                                  *)
(***************************************************************************)
TESR == 0
METH == 1
SOFR == 2
AAVE_USDT == 3
ONDO_USDY == 4
RateSourceId == {TESR, METH, SOFR, AAVE_USDT, ONDO_USDY}

SourceName(id) ==
  CASE id = TESR -> "TESR"
    [] id = METH -> "mETH"
    [] id = SOFR -> "SOFR"
    [] id = AAVE_USDT -> "Aave_USDT"
    [] id = ONDO_USDY -> "Ondo_USDY"

RateData(id, name, rate, timestamp, source, isLive) ==
  [sourceId |-> id, name |-> name, rate |-> rate, timestamp |-> timestamp,
   source |-> source, isLive |-> isLive]

(***************************************************************************)
(* validateRates (collectors)                                              *)
(***************************************************************************)
minSources == 3
maxAge == 24 * 60 * 60 * 1000
maxRate == 5000
maxFallback == 2

Issue(kind, name) == [kind |-> kind, name |-> name]

\* mutant: the live observations are counted
fallbackCount_CountsLive(rates) == Len(SelectSeq(rates, LAMBDA r : r.isLive))

fallbackCount(rates) == Len(SelectSeq(rates, LAMBDA r : ~r.isLive))

\* one message per element of rates that satisfies the test, in list order
Issues(kind, flagged) ==
  [i \in 1..Len(flagged) |-> Issue(kind, flagged[i].name)]

\* mutant: an implausibly high rate is reported as an error
validateRates_HighIsError(rates, t) ==
  LET e1 == IF Len(rates) < minSources
              THEN <<Issue("too_few_sources", "")>> ELSE <<>>
      w1 == Issues("stale",
                   SelectSeq(rates, LAMBDA r : t - r.timestamp > maxAge))
      e2 == e1 \o Issues("negative",
                         SelectSeq(rates, LAMBDA r : JsLt(r.rate, 0)))
                \o Issues("high",
                          SelectSeq(rates, LAMBDA r : JsGt(r.rate, maxRate)))
      w3 == IF fallbackCount(rates) > maxFallback
              THEN Append(w1, Issue("fallback", "")) ELSE w1
  IN [isValid |-> Len(e2) = 0, warnings |-> w3, errors |-> e2]

\* mutant: a negative rate is reported as a warning only
validateRates_NegativeIsWarning(rates, t) ==
  LET e1 == IF Len(rates) < minSources
              THEN <<Issue("too_few_sources", "")>> ELSE <<>>
      w1 == Issues("stale",
                   SelectSeq(rates, LAMBDA r : t - r.timestamp > maxAge))
      w2 == w1 \o Issues("negative",
                         SelectSeq(rates, LAMBDA r : JsLt(r.rate, 0)))
      w3 == w2 \o Issues("high",
                         SelectSeq(rates, LAMBDA r : JsGt(r.rate, maxRate)))
      w4 == IF fallbackCount(rates) > maxFallback
              THEN Append(w3, Issue("fallback", "")) ELSE w3
  IN [isValid |-> Len(e1) = 0, warnings |-> w4, errors |-> e1]

validateRates(rates, t) ==
  LET e1 == IF Len(rates) < minSources
              THEN <<Issue("too_few_sources", "")>> ELSE <<>>
      w1 == Issues("stale",
                   SelectSeq(rates, LAMBDA r : t - r.timestamp > maxAge))
      e2 == e1 \o Issues("negative",
                         SelectSeq(rates, LAMBDA r : JsLt(r.rate, 0)))
      w2 == w1 \o Issues("high",
                         SelectSeq(rates, LAMBDA r : JsGt(r.rate, maxRate)))
      w3 == IF fallbackCount(rates) > maxFallback
              THEN Append(w2, Issue("fallback", "")) ELSE w2
  IN [isValid |-> Len(e2) = 0, warnings |-> w3, errors |-> e2]

(***************************************************************************)
(* calculateDOR (collectors)                                               *)
(***************************************************************************)
weights(id) ==
  CASE id = TESR -> 2000
    [] id = METH -> 3000
    [] id = SOFR -> 2500
    [] id = AAVE_USDT -> 1500
    [] id = ONDO_USDY -> 1000

defaultDOR == 460

\* the two accumulators after the loop over rates (finite rates only)
RECURSIVE weightedSum(_)
weightedSum(rates) ==
  IF rates = <<>> THEN 0
  ELSE Head(rates).rate.v * weights(Head(rates).sourceId)
         + weightedSum(Tail(rates))

RECURSIVE totalWeight(_)
totalWeight(rates) ==
  IF rates = <<>> THEN 0
  ELSE weights(Head(rates).sourceId) + totalWeight(Tail(rates))

\* mutant: the weights are taken for percentages
calculateDOR_PercentWeights(rates) ==
  IF totalWeight(rates) = 0 THEN Num(defaultDOR)
  ELSE IF \E i \in 1..Len(rates) : rates[i].rate.t \in {"nan", "undef"}
    THEN NaN
  ELSE IF \E i \in 1..Len(rates) : rates[i].rate.t = "inf" THEN Infinity
  ELSE Num(MathRound(weightedSum(rates), 100))

\* mutant: the sum is divided by the weight of all five sources
calculateDOR_FixedDenominator(rates) ==
  IF totalWeight(rates) = 0 THEN Num(defaultDOR)
  ELSE IF \E i \in 1..Len(rates) : rates[i].rate.t \in {"nan", "undef"}
    THEN NaN
  ELSE IF \E i \in 1..Len(rates) : rates[i].rate.t = "inf" THEN Infinity
  ELSE Num(MathRound(weightedSum(rates), 10000))

\* mutant: the quotient is truncated instead of rounded
calculateDOR_Truncates(rates) ==
  IF totalWeight(rates) = 0 THEN Num(defaultDOR)
  ELSE IF \E i \in 1..Len(rates) : rates[i].rate.t \in {"nan", "undef"}
    THEN NaN
  ELSE IF \E i \in 1..Len(rates) : rates[i].rate.t = "inf" THEN Infinity
  ELSE Num(weightedSum(rates) \div totalWeight(rates))

\* mutant: the loop over the rates starts at the second one
calculateDOR_SkipsFirst(rates) ==
  IF totalWeight(Tail(rates)) = 0 THEN Num(defaultDOR)
  ELSE IF \E i \in 2..Len(rates) : rates[i].rate.t \in {"nan", "undef"}
    THEN NaN
  ELSE IF \E i \in 2..Len(rates) : rates[i].rate.t = "inf" THEN Infinity
  ELSE Num(MathRound(weightedSum(Tail(rates)), totalWeight(Tail(rates))))

\* a NaN rate makes weightedSum NaN, else an infinite one makes it Infinity
calculateDOR(rates) ==
  IF totalWeight(rates) = 0 THEN Num(defaultDOR)
  ELSE IF \E i \in 1..Len(rates) : rates[i].rate.t \in {"nan", "undef"}
    THEN NaN
  ELSE IF \E i \in 1..Len(rates) : rates[i].rate.t = "inf" THEN Infinity
  ELSE Num(MathRound(weightedSum(rates), totalWeight(rates)))

(***************************************************************************)
(* withRetry (pusher) and withRetry (collectors)                           *)
(***************************************************************************)
RECURSIVE Pow(_, _)
Pow(b, e) == IF e = 0 THEN 1 ELSE b * Pow(b, e - 1)

Min(a, b) == IF a <= b THEN a ELSE b

DEFAULT_RETRY_CONFIG ==
  [maxRetries |-> 3, baseDelayMs |-> 2000, maxDelayMs |-> 30000,
   backoffMultiplier |-> 2]

DEFAULT_CONFIG == [maxRetries |-> 3, retryDelayMs |-> 1000, timeoutMs |-> 15000]

\* how fn() settled: resolved with a value or rejected with an error
Resolved(v) == [ok |-> TRUE, value |-> v, error |-> "null"]
Rejected(e) == [ok |-> FALSE, value |-> Undefined, error |-> e]

\* the for-loop test; falling out of the loop is `throw lastError`
retryLoop(r, maxRetries) ==
  [r EXCEPT !.status = IF r.attempt <= maxRetries THEN "running" ELSE "thrown"]

\* let lastError = null; attempt = 1
retryStart(maxRetries) ==
  retryLoop([attempt |-> 1, lastError |-> "null", waits |-> <<>>,
             status |-> "running", value |-> Undefined], maxRetries)

Wait(attempt, delay) == [after |-> attempt, delay |-> delay]

\* mutant: a resolved fn() is not returned, the loop goes on
withRetryPusher_NoReturn(r, config, out) ==
  LET delay == Min(config.baseDelayMs
                     * Pow(config.backoffMultiplier, r.attempt - 1),
                   config.maxDelayMs)
  IN retryLoop([r EXCEPT !.value = IF out.ok THEN out.value ELSE @,
                         !.lastError = IF out.ok THEN @ ELSE out.error,
                         !.waits = IF ~out.ok /\ r.attempt < config.maxRetries
                                     THEN Append(@, Wait(r.attempt, delay))
                                     ELSE @,
                         !.attempt = @ + 1],
               config.maxRetries)

\* mutant: only the first error is remembered
withRetryPusher_FirstError(r, config, out) ==
  LET delay == Min(config.baseDelayMs
                     * Pow(config.backoffMultiplier, r.attempt - 1),
                   config.maxDelayMs)
  IN IF out.ok
       THEN [r EXCEPT !.status = "returned", !.value = out.value]
       ELSE retryLoop([r EXCEPT !.lastError = IF @ = "null" THEN out.error
                                               ELSE @,
                                !.waits = IF r.attempt < config.maxRetries
                                            THEN Append(@, Wait(r.attempt, delay))
                                            ELSE @,
                                !.attempt = @ + 1],
                      config.maxRetries)

\* mutant: the delay is not capped at maxDelayMs
withRetryPusher_NoCap(r, config, out) ==
  LET delay == config.baseDelayMs
                 * Pow(config.backoffMultiplier, r.attempt - 1)
  IN IF out.ok
       THEN [r EXCEPT !.status = "returned", !.value = out.value]
       ELSE retryLoop([r EXCEPT !.lastError = out.error,
                                !.waits = IF r.attempt < config.maxRetries
                                            THEN Append(@, Wait(r.attempt, delay))
                                            ELSE @,
                                !.attempt = @ + 1],
                      config.maxRetries)

\* one iteration of the loop of withRetry (pusher), fn() having settled as out
withRetryPusher(r, config, out) ==
  LET delay == Min(config.baseDelayMs
                     * Pow(config.backoffMultiplier, r.attempt - 1),
                   config.maxDelayMs)
  IN IF out.ok
       THEN [r EXCEPT !.status = "returned", !.value = out.value]
       ELSE retryLoop([r EXCEPT !.lastError = out.error,
                                !.waits = IF r.attempt < config.maxRetries
                                            THEN Append(@, Wait(r.attempt, delay))
                                            ELSE @,
                                !.attempt = @ + 1],
                      config.maxRetries)

\* mutant: the delay grows by retryDelayMs at every attempt
withRetryCollectors_Linear(r, config, out) ==
  LET delay == config.retryDelayMs * r.attempt
  IN IF out.ok
       THEN [r EXCEPT !.status = "returned", !.value = out.value]
       ELSE retryLoop([r EXCEPT !.lastError = out.error,
                                !.waits = IF r.attempt < config.maxRetries
                                            THEN Append(@, Wait(r.attempt, delay))
                                            ELSE @,
                                !.attempt = @ + 1],
                      config.maxRetries)

\* one iteration of the loop of withRetry (collectors)
withRetryCollectors(r, config, out) ==
  LET delay == config.retryDelayMs * Pow(2, r.attempt - 1)
  IN IF out.ok
       THEN [r EXCEPT !.status = "returned", !.value = out.value]
       ELSE retryLoop([r EXCEPT !.lastError = out.error,
                                !.waits = IF r.attempt < config.maxRetries
                                            THEN Append(@, Wait(r.attempt, delay))
                                            ELSE @,
                                !.attempt = @ + 1],
                      config.maxRetries)

(***************************************************************************)
(* The source collectors and collectAllRates (collectors)                  *)
(***************************************************************************)
\* length of the `sources` array of each collector
Endpoints(id) == IF id = ONDO_USDY THEN 3 ELSE 2

\* the hard-coded rate of each collector's final fallback
FallbackRate(id) ==
  CASE id = TESR -> 350
    [] id = METH -> 450
    [] id = SOFR -> 460
    [] id = AAVE_USDT -> 550
    [] id = ONDO_USDY -> 500

\* the `source` field of a live observation
LiveSource(id, e) ==
  CASE id = TESR -> IF e = 1 THEN "api.treehouse.finance" ELSE "yields.llama.fi"
    [] id = METH -> "Mantle API"
    [] id = SOFR -> IF e = 1 THEN "markets.newyorkfed.org"
                             ELSE "api.stlouisfed.org"
    [] id = AAVE_USDT -> "Aave API"
    [] id = ONDO_USDY -> "Ondo API"

\* !x for a number x
Falsy(x) == x.t \in {"undef", "nan"} \/ (x.t = "num" /\ x.v = 0)

\* An endpoint answers with a network error or with a body from which the
\* collector extracts x: undefined, NaN, Infinity or a finite percentage
\* (held in thousandths of a percent).  Does fn() resolve with x?
\*   TESR:            ratePercent == null || isNaN(ratePercent) throws
\*   METH, AAVE[2], ONDO[3]:   if (x) return x; throw
\*   SOFR, AAVE[1], ONDO[1,2]: if (x != null) return x; throw
Accepts(id, e, x) ==
  CASE id = TESR -> x.t \notin {"undef", "nan"}
    [] id = METH -> ~Falsy(x)
    [] id = SOFR -> x.t # "undef"
    [] id = AAVE_USDT -> IF e = 1 THEN x.t # "undef" ELSE ~Falsy(x)
    [] id = ONDO_USDY -> IF e = 3 THEN ~Falsy(x) ELSE x.t # "undef"

NetworkError == [kind |-> "neterr", x |-> Undefined]
Body(x) == [kind |-> "body", x |-> x]

\* how the fn() handed to withRetry settles on a response (the collectors
\* only log the error, so its message is not kept apart)
fetchOutcome(id, e, resp) ==
  IF resp.kind = "neterr" THEN Rejected("Error")
  ELSE IF Accepts(id, e, resp.x) THEN Resolved(resp.x)
  ELSE Rejected("Error")

\* Math.round(x * 100), x in thousandths of a percent
roundBps(x) ==
  IF x.t = "num" THEN Num(MathRound(x.v, 10))
  ELSE IF x.t = "inf" THEN Infinity ELSE NaN

liveData(id, e, x, t) ==
  RateData(id, SourceName(id), roundBps(x), t, LiveSource(id, e), TRUE)

fallbackData(id, t) ==
  RateData(id, SourceName(id), Num(FallbackRate(id)), t, "Fallback", FALSE)

NoData == RateData(0 - 1, "", Undefined, 0, "", FALSE)

\* the locals of a withRetry call that is not running
noRetry ==
  [attempt |-> 0, lastError |-> "null", waits |-> <<>>, status |-> "idle",
   value |-> Undefined]

\* a collector before it is called
collectorIdle ==
  [ep |-> 0, retry |-> noRetry, settled |-> "pending", result |-> NoData]

\* a collector at the first await of its first endpoint
collectorStart(config) ==
  [collectorIdle EXCEPT !.ep = 1, !.retry = retryStart(config.maxRetries)]

\* a collector that returned data (its locals are gone)
collectorReturned(data) ==
  [collectorIdle EXCEPT !.settled = "fulfilled", !.result = data]

\* a collector whose promise rejected
collectorRaised == [collectorIdle EXCEPT !.settled = "rejected"]

\* mutant: the last endpoint's error escapes the collector
collectorStep_Raises(id, c, config, out, t) ==
  LET r == withRetryCollectors(c.retry, config, out)
  IN CASE r.status = "returned" ->
            collectorReturned(liveData(id, c.ep, r.value, t))
       [] r.status = "thrown" /\ c.ep < Endpoints(id) ->
            [c EXCEPT !.ep = @ + 1, !.retry = retryStart(config.maxRetries)]
       [] r.status = "thrown" /\ c.ep >= Endpoints(id) -> collectorRaised
       [] OTHER -> [c EXCEPT !.retry = r]

\* mutant: a failed fetch moves on to the next endpoint without retrying
collectorStep_NoRetry(id, c, config, out, t) ==
  LET r == withRetryCollectors(c.retry, config, out)
  IN CASE r.status = "returned" ->
            collectorReturned(liveData(id, c.ep, r.value, t))
       [] r.status # "returned" /\ c.ep < Endpoints(id) ->
            [c EXCEPT !.ep = @ + 1, !.retry = retryStart(config.maxRetries)]
       [] OTHER -> collectorReturned(fallbackData(id, t))

\* one fetch of the current endpoint inside withRetry settles as out: what
\* the collector's for loop over `sources` does with withRetry's outcome
collectorStep(id, c, config, out, t) ==
  LET r == withRetryCollectors(c.retry, config, out)
  IN CASE r.status = "returned" ->
            collectorReturned(liveData(id, c.ep, r.value, t))
       [] r.status = "thrown" /\ c.ep < Endpoints(id) ->
            [c EXCEPT !.ep = @ + 1, !.retry = retryStart(config.maxRetries)]
       [] r.status = "thrown" /\ c.ep >= Endpoints(id) ->
            collectorReturned(fallbackData(id, t))
       [] OTHER -> [c EXCEPT !.retry = r]

\* the loop of collectAllRates over the settled results, in array order
RECURSIVE fulfilledUpTo(_, _)
fulfilledUpTo(c, n) ==
  IF n = 0 THEN <<>>
  ELSE LET rest == fulfilledUpTo(c, n - 1) IN
       IF c[n - 1].settled = "fulfilled" THEN Append(rest, c[n - 1].result)
       ELSE rest

(***************************************************************************)
(* CircuitBreaker (pusher)                                                 *)
(***************************************************************************)
CLOSED == "CLOSED"
OPEN == "OPEN"
HALF_OPEN == "HALF_OPEN"
CircuitState == {CLOSED, OPEN, HALF_OPEN}

\* the configuration RatePusher's constructor passes to its breaker
failureThreshold == 3
resetTimeoutMs == 5 * 60 * 1000
halfOpenMaxAttempts == 2

\* field initialisers of class CircuitBreaker
NewCircuitBreaker ==
  [state |-> CLOSED, failureCount |-> 0, lastFailureTime |-> 0,
   halfOpenAttempts |-> 0]

\* mutant: the elapsed time is measured from 0, not from lastFailureTime
executeOpenCheck_FromZero(b, t) ==
  IF b.state = OPEN
    THEN IF t >= resetTimeoutMs
           THEN [cb |-> [b EXCEPT !.state = HALF_OPEN, !.halfOpenAttempts = 0],
                 verdict |-> "admit"]
           ELSE [cb |-> b, verdict |-> "reject_open"]
    ELSE [cb |-> b, verdict |-> "admit"]

\* mutant: a refused call restarts the reset timeout
executeOpenCheck_RestartsTimer(b, t) ==
  IF b.state = OPEN
    THEN IF t - b.lastFailureTime >= resetTimeoutMs
           THEN [cb |-> [b EXCEPT !.state = HALF_OPEN, !.halfOpenAttempts = 0],
                 verdict |-> "admit"]
           ELSE [cb |-> [b EXCEPT !.lastFailureTime = t],
                 verdict |-> "reject_open"]
    ELSE [cb |-> b, verdict |-> "admit"]

executeOpenCheck(b, t) ==
  IF b.state = OPEN
    THEN IF t - b.lastFailureTime >= resetTimeoutMs
           THEN [cb |-> [b EXCEPT !.state = HALF_OPEN, !.halfOpenAttempts = 0],
                 verdict |-> "admit"]
           ELSE [cb |-> b, verdict |-> "reject_open"]
    ELSE [cb |-> b, verdict |-> "admit"]

\* mutant: the attempt cap is tested one too late
executeHalfOpenCheck_OffByOne(b, t) ==
  IF b.state = HALF_OPEN
    THEN LET n == b.halfOpenAttempts + 1 IN
         IF n > halfOpenMaxAttempts + 1
           THEN [cb |-> [b EXCEPT !.halfOpenAttempts = n, !.state = OPEN,
                                  !.lastFailureTime = t],
                 verdict |-> "reject_half_open"]
           ELSE [cb |-> [b EXCEPT !.halfOpenAttempts = n], verdict |-> "admit"]
    ELSE [cb |-> b, verdict |-> "admit"]

\* execute(), second if: count the half-open attempt, reopen on too many
executeHalfOpenCheck(b, t) ==
  IF b.state = HALF_OPEN
    THEN LET n == b.halfOpenAttempts + 1 IN
         IF n > halfOpenMaxAttempts
           THEN [cb |-> [b EXCEPT !.halfOpenAttempts = n, !.state = OPEN,
                                  !.lastFailureTime = t],
                 verdict |-> "reject_half_open"]
           ELSE [cb |-> [b EXCEPT !.halfOpenAttempts = n], verdict |-> "admit"]
    ELSE [cb |-> b, verdict |-> "admit"]

\* execute() up to the point where fn() is invoked (no await in between)
executeEntry(b, t) ==
  LET r1 == executeOpenCheck(b, t) IN
  IF r1.verdict # "admit" THEN r1 ELSE executeHalfOpenCheck(r1.cb, t)

\* mutant: a success leaves failureCount as it is
onSuccess_KeepsCount(b) ==
  [b EXCEPT !.state = IF b.state = HALF_OPEN THEN CLOSED ELSE b.state]

\* mutant: a success in HALF_OPEN does not close the breaker
onSuccess_StaysHalfOpen(b) ==
  [b EXCEPT !.failureCount = 0]

onSuccess(b) ==
  [b EXCEPT !.failureCount = 0,
            !.state = IF b.state = HALF_OPEN THEN CLOSED ELSE b.state]

\* mutant: the breaker opens one failure late
onFailure_OpensLate(b, t) ==
  LET n == b.failureCount + 1 IN
  [b EXCEPT !.failureCount = n, !.lastFailureTime = t,
            !.state = IF n > failureThreshold THEN OPEN ELSE b.state]

\* mutant: the breaker opens only when the count equals the threshold
onFailure_OpensOnlyAtThreshold(b, t) ==
  LET n == b.failureCount + 1 IN
  [b EXCEPT !.failureCount = n, !.lastFailureTime = t,
            !.state = IF n = failureThreshold THEN OPEN ELSE b.state]

onFailure(b, t) ==
  LET n == b.failureCount + 1 IN
  [b EXCEPT !.failureCount = n, !.lastFailureTime = t,
            !.state = IF n >= failureThreshold THEN OPEN ELSE b.state]

reset(b) ==
  [b EXCEPT !.state = CLOSED, !.failureCount = 0, !.lastFailureTime = 0,
            !.halfOpenAttempts = 0]

(***************************************************************************)
(* The oracle entry point: config, runUpdate and its collaborators         *)
(***************************************************************************)
\* the config object as the environment can make it; "" is an unset variable
\* and maxGasPrice is a field of PushConfig that this object does not have
Configs ==
  [oracleAddress : {"", "0xOracle"}, privateKey : {"", "0xKey"},
   useDatabase : BOOLEAN, maxGasPrice : {Undefined}]

\* the config object when no environment variable is set
DefaultEnvConfig ==
  [oracleAddress |-> "", privateKey |-> "", useDatabase |-> TRUE,
   maxGasPrice |-> Undefined]

PushResult(txHash, oldDOR, newDOR, localDOR) ==
  [defined |-> TRUE, txHash |-> txHash, oldDOR |-> oldDOR, newDOR |-> newDOR,
   localDOR |-> localDOR]

NoPushResult ==
  [defined |-> FALSE, txHash |-> 0, oldDOR |-> Undefined, newDOR |-> Undefined,
   localDOR |-> Undefined]

\* the runUpdate calls of runCron: 0 is the initial one, the others are
\* calls made by the callback handed to cron.schedule
CronJobs == 0..MaxOverlap

\* no runUpdate call is under way; the fields are its locals as declared
runIdle ==
  [pc |-> "idle", dryRun |-> FALSE, rates |-> <<>>, dor |-> Num(0),
   pushResult |-> NoPushResult, updateError |-> "undefined",
   raised |-> "none", oldDOR |-> Undefined, retry |-> noRetry, tx |-> 0,
   push |-> "none"]

\* new RatePusher(config): every pusher owns a CircuitBreaker of its own
NewRatePusher ==
  [constructed |-> TRUE, circuitBreaker |-> NewCircuitBreaker]

NoPusher == [constructed |-> FALSE, circuitBreaker |-> NewCircuitBreaker]

\* what a cycle has done so far: calls issued and answers received
NoCycleHistory ==
  [submitted |-> 0, authChecks |-> 0, gasEstimates |-> 0, gasRejected |-> 0,
   authorized |-> "unknown", readBack |-> Undefined, projection |-> FALSE,
   records |-> 0, recordSuccess |-> FALSE, payloads |-> <<>>]

NoHistory ==
  [cycles |-> 0, pushFails |-> 0, lastPushFail |-> 0, outcome |-> "none",
   saved |-> "none", cycle |-> NoCycleHistory]

\* runCron has not been called
cronIdle == [pc |-> "idle", ticks |-> 0, jobs |-> [j \in CronJobs |-> runIdle]]

\* the process has not called runUpdate
RunIdle ==
  /\ oracleConfig = DefaultEnvConfig
  /\ run = runIdle
  /\ pusher = NoPusher
  /\ hist = NoHistory
  /\ cron = cronIdle

\* mutant: the record is saved at the end of the try block, not in finally
finallyBlock_OnlyOnSuccess(r) ==
  IF ~r.dryRun /\ Len(r.rates) > 0 /\ r.updateError = "undefined"
    THEN [r EXCEPT !.pc = "saveToDatabase"]
    ELSE [r EXCEPT !.pc = "settled"]

\* the finally block of runUpdate up to its await
finallyBlock(r) ==
  IF ~r.dryRun /\ Len(r.rates) > 0
    THEN [r EXCEPT !.pc = "saveToDatabase"]
    ELSE [r EXCEPT !.pc = "settled"]

\* the catch block of runUpdate up to its await; e is rethrown after it
catchBlock(r, cfg, e) ==
  LET r1 == [r EXCEPT !.updateError = e, !.raised = e, !.retry = noRetry]
  IN IF cfg.useDatabase /\ Len(r.rates) > 0
       THEN [r1 EXCEPT !.pc = "db.log"]
       ELSE finallyBlock(r1)

\* how a call of the database service (db.saveDORUpdate, db.log) can settle
DbOutcomes == {"ok", "raises"}

\* the pcs at which the fn handed to withRetry by pushBatchRates is running
PushPcs ==
  {"estimateGas", "getFeeData", "batchUpdateRates", "tx.wait", "setTimeout"}

(***************************************************************************)
(* The breaker driven by callers: an execute() call is admitted or refused *)
(* in one step and, when admitted, its fn() settles in a later step.       *)
(***************************************************************************)
\* nothing has been handed to the aggregation functions
NoOutput == [kind |-> "none"]
AggIdle == aggIn = <<>> /\ aggOut = NoOutput

NoFetch == [ep |-> 0, ok |-> FALSE]

\* collectAllRates has not been called
CollectIdle ==
  /\ col = [id \in RateSourceId |-> collectorIdle]
  /\ lastFetch = [id \in RateSourceId |-> NoFetch]
  /\ collected = [done |-> FALSE, rates |-> <<>>, outOfOrder |-> FALSE]

\* no withRetry call is under way
RetryIdle ==
  /\ rtCfg = [variant |-> "none", config |-> DEFAULT_RETRY_CONFIG]
  /\ rt = noRetry
  /\ rtLog = <<>>

CallIds == 1..MaxInFlight

ExecuteKinds == {"admit", "reject_open", "reject_half_open"}

Event(kind, id, pr) == [kind |-> kind, id |-> id, probe |-> pr]

BreakerStart ==
  /\ cb = NewCircuitBreaker
  /\ running = {}
  /\ ev = Event("none", 0, FALSE)
  /\ streak = 0
  /\ hoInvoked = 0
  /\ probe = {}
  /\ recovered = FALSE

BreakerInit ==
  /\ BreakerStart
  /\ now = 0
  /\ AggIdle
  /\ RetryIdle
  /\ CollectIdle
  /\ RunIdle

\* execute(fn) is called: lines 49-69
Execute(c) ==
  /\ c \notin running
  /\ LET r == executeEntry(cb, now)
         admitted == r.verdict = "admit"
         isProbe == admitted /\ cb.state = OPEN
     IN
     /\ cb' = r.cb
     /\ ev' = Event(r.verdict, c, isProbe)
     /\ running' = IF admitted THEN running \cup {c} ELSE running
     /\ probe' = IF isProbe THEN probe \cup {c} ELSE probe
     /\ hoInvoked' = IF admitted /\ r.cb.state = HALF_OPEN
                       THEN (IF isProbe THEN 1 ELSE hoInvoked + 1)
                       ELSE hoInvoked
  /\ UNCHANGED <<now, streak, recovered, aggVars, retryVars, collectVars, runVars>>

\* fn() resolved: lines 70-71
OpSucceeds(c) ==
  /\ c \in running
  /\ cb' = onSuccess(cb)
  /\ running' = running \ {c}
  /\ probe' = probe \ {c}
  /\ ev' = Event("op_success", c, c \in probe)
  /\ streak' = 0
  /\ UNCHANGED <<now, hoInvoked, recovered, aggVars, retryVars, collectVars, runVars>>

\* fn() rejected: lines 72-75
OpFails(c) ==
  /\ c \in running
  /\ ~recovered
  /\ cb' = onFailure(cb, now)
  /\ running' = running \ {c}
  /\ probe' = probe \ {c}
  /\ ev' = Event("op_failure", c, c \in probe)
  /\ streak' = streak + 1
  /\ UNCHANGED <<now, hoInvoked, recovered, aggVars, retryVars, collectVars, runVars>>

\* reset() is called
Reset ==
  /\ cb' = reset(cb)
  /\ ev' = Event("reset", 0, FALSE)
  /\ streak' = 0
  /\ UNCHANGED <<now, running, hoInvoked, probe, recovered, aggVars,
               retryVars, collectVars, runVars>>

\* time passes
Tick ==
  /\ now < MaxTicks * TickMs
  /\ now' = now + TickMs
  /\ ev' = Event("tick", 0, FALSE)
  /\ UNCHANGED <<cb, running, streak, hoInvoked, probe, recovered, aggVars,
               retryVars, collectVars, runVars>>

BreakerNext ==
  \/ \E c \in CallIds : Execute(c)
  \/ \E c \in CallIds : OpSucceeds(c)
  \/ \E c \in CallIds : OpFails(c)
  \/ Reset
  \/ Tick

BreakerSpec == BreakerInit /\ [][BreakerNext]_vars

(***************************************************************************)
(* execute() calls that never overlap: each returns before the next        *)
(* starts.  The guarded operation may recover for good, while the clock    *)
(* still has a full resetTimeoutMs to run; time passes, calls keep         *)
(* arriving and every invoked operation settles.                           *)
(***************************************************************************)
SeqExecute == running = {} /\ Execute(1)
SeqOpSucceeds == OpSucceeds(1)
SeqOpFails == OpFails(1)
SeqReset == Reset
SeqTick == Tick

Recover ==
  /\ ~recovered
  /\ now + resetTimeoutMs <= MaxTicks * TickMs
  /\ recovered' = TRUE
  /\ ev' = Event("recover", 0, FALSE)
  /\ UNCHANGED <<cb, now, running, streak, hoInvoked, probe, aggVars,
               retryVars, collectVars, runVars>>

SeqNext ==
  \/ SeqExecute
  \/ SeqOpSucceeds
  \/ SeqOpFails
  \/ SeqReset
  \/ SeqTick
  \/ Recover

SeqSpec ==
  /\ BreakerInit /\ [][SeqNext]_vars
  /\ WF_vars(SeqTick) /\ WF_vars(SeqExecute) /\ WF_vars(SeqOpSucceeds)

(***************************************************************************)
(* Properties of the CircuitBreaker                                        *)
(***************************************************************************)

\* C1: from CLOSED, the failure that makes failureThreshold consecutive
\* failures (no success or reset in between) opens the breaker and any
\* earlier one leaves it CLOSED; a success in CLOSED zeroes the counter and
\* keeps the breaker CLOSED.
C1_ThreeConsecutiveFailuresOpen ==
  [][ /\ (ev'.kind = "op_failure" /\ cb.state = CLOSED) =>
           /\ cb'.state = IF streak' >= failureThreshold THEN OPEN ELSE CLOSED
           /\ cb'.failureCount = streak'
      /\ (ev'.kind = "op_success" /\ cb.state = CLOSED) =>
           (cb'.failureCount = 0 /\ cb'.state = CLOSED)
    ]_vars

C1_Witness ==
  /\ ev.kind = "op_failure"
  /\ streak = failureThreshold
  /\ cb.state = OPEN
  /\ cb.failureCount = failureThreshold

\* C2: an execute() call made while the breaker is OPEN and less than
\* resetTimeoutMs has passed since lastFailureTime is refused with the
\* breaker-open error and invokes no operation.
C2_OpenRejectsBeforeTimeout ==
  [][ (ev'.kind \in ExecuteKinds /\ cb.state = OPEN
         /\ now - cb.lastFailureTime < resetTimeoutMs) =>
        (ev'.kind = "reject_open" /\ running' = running)
    ]_vars

C2_Witness ==
  /\ ev.kind = "reject_open"
  /\ cb.state = OPEN
  /\ now > cb.lastFailureTime

\* C3: an execute() call made while the breaker is OPEN and resetTimeoutMs or
\* more has passed moves it to HALF_OPEN and invokes the operation; when that
\* operation succeeds the breaker is CLOSED with failureCount 0; and once
\* the operation has recovered an OPEN breaker eventually closes.
C3_OpenRecoversThroughHalfOpen ==
  /\ [][ /\ (ev'.kind \in ExecuteKinds /\ cb.state = OPEN
               /\ now - cb.lastFailureTime >= resetTimeoutMs) =>
              /\ ev'.kind = "admit"
              /\ cb'.state = HALF_OPEN
              /\ running' # running
         /\ (ev'.kind = "op_success" /\ ev'.probe) =>
              (cb'.state = CLOSED /\ cb'.failureCount = 0)
       ]_vars
  /\ ((cb.state = OPEN /\ recovered) ~> (cb.state = CLOSED))

C3_Witness ==
  /\ ev.kind = "op_success"
  /\ ev.probe
  /\ cb.state = CLOSED
  /\ recovered

\* C4: a guarded operation that fails while the breaker is HALF_OPEN leaves
\* the breaker OPEN with lastFailureTime set to the time of the failure.
C4_HalfOpenFailureReopens ==
  [][ (ev'.kind = "op_failure" /\ cb.state = HALF_OPEN) =>
        (cb'.state = OPEN /\ cb'.lastFailureTime = now)
    ]_vars

\* C5: no HALF_OPEN period sees more than halfOpenMaxAttempts operations
\* invoked; a call arriving in HALF_OPEN after that many is refused without
\* invoking the operation, opens the breaker and restarts the timer.
C5_HalfOpenAttemptCap ==
  [][ /\ (cb'.state = HALF_OPEN => hoInvoked' <= halfOpenMaxAttempts)
      /\ (ev'.kind \in ExecuteKinds /\ cb.state = HALF_OPEN
            /\ hoInvoked >= halfOpenMaxAttempts) =>
           /\ ev'.kind = "reject_half_open"
           /\ running' = running
           /\ cb'.state = OPEN
           /\ cb'.lastFailureTime = now
    ]_vars

C5_Witness ==
  /\ ev.kind = "reject_half_open"
  /\ cb.state = OPEN
  /\ hoInvoked = halfOpenMaxAttempts
  /\ cb.lastFailureTime = now

(***************************************************************************)
(* validateRates applied to lists of observations: at most one observation *)
(* per source, in source order, as collectAllRates builds them.            *)
(***************************************************************************)
\* a negative rate, the smallest valid one and an implausibly high one
AggRates == {Num(0 - 1), Num(0), Num(maxRate + 1)}

AggInit ==
  /\ BreakerStart
  /\ now = maxAge + 1
  /\ AggIdle
  /\ RetryIdle
  /\ CollectIdle
  /\ RunIdle

\* one more collector result is pushed to the list, in sourceId order: a
\* live observation, or the collector's fallback with its hard-coded rate
AddObservation ==
  /\ aggOut = NoOutput
  /\ \E id \in RateSourceId, live \in BOOLEAN,
        ts \in {now - maxAge - 1, now - maxAge} :
       \E rate \in IF live THEN AggRates ELSE {Num(FallbackRate(id))} :
         /\ (aggIn # <<>> => id > aggIn[Len(aggIn)].sourceId)
         /\ aggIn' = Append(aggIn,
                            RateData(id, SourceName(id), rate, ts,
                                     IF live THEN "live" ELSE "Fallback",
                                     live))
  /\ UNCHANGED <<now, breakerVars, retryVars, collectVars, aggOut, runVars>>

Validate ==
  /\ aggOut = NoOutput
  /\ aggOut' = [kind |-> "validation", res |-> validateRates(aggIn, now)]
  /\ UNCHANGED <<now, breakerVars, retryVars, collectVars, aggIn, runVars>>

\* calculateDOR(rates) is called, a first and a second time
Aggregate ==
  /\ aggIn # <<>>
  /\ \/ /\ aggOut = NoOutput
        /\ aggOut' = [kind |-> "dor", res |-> calculateDOR(aggIn),
                      calls |-> 1]
     \/ /\ aggOut.kind = "dor"
        /\ aggOut.calls = 1
        /\ aggOut' = [kind |-> "dor", res |-> calculateDOR(aggIn),
                      calls |-> 2]
  /\ UNCHANGED <<now, breakerVars, retryVars, collectVars, aggIn, runVars>>

AggNext == AddObservation \/ Validate \/ Aggregate

AggSpec == AggInit /\ [][AggNext]_vars

Kinds(issues) == {issues[i].kind : i \in 1..Len(issues)}

\* C10: validateRates answers isValid = TRUE exactly when the list holds at
\* least 3 observations and none of them has a rate below 0, whatever
\* warnings (high rate, stale, too many fallbacks) it raises.
C10_ValidIffEnoughAndNonNegative ==
  aggOut.kind = "validation" =>
    (aggOut.res.isValid <=>
       /\ Len(aggIn) >= 3
       /\ \A i \in 1..Len(aggIn) :
            ~(aggIn[i].rate.t = "num" /\ aggIn[i].rate.v < 0))

C10_Witness ==
  /\ aggOut.kind = "validation"
  /\ aggOut.res.isValid
  /\ Kinds(aggOut.res.warnings) = {"stale", "high", "fallback"}

\* the observations of aggIn that are not live
NonLive == {i \in 1..Len(aggIn) : ~aggIn[i].isLive}

\* C12: the too-many-fallback warning is raised exactly when more than 2
\* observations are not live; five fallback observations validate without an
\* error and with that warning.
C12_FallbackWarning ==
  aggOut.kind = "validation" =>
    /\ "fallback" \in Kinds(aggOut.res.warnings) <=> Cardinality(NonLive) > 2
    /\ Cardinality(NonLive) = 5 =>
         /\ aggOut.res.isValid
         /\ aggOut.res.errors = <<>>
         /\ "fallback" \in Kinds(aggOut.res.warnings)

\* all five collectors fell back and the list has been validated
C12_Witness ==
  /\ aggOut.kind = "validation"
  /\ Cardinality(NonLive) = 5
  /\ \A i \in 1..5 : aggIn[i].rate = Num(FallbackRate(aggIn[i].sourceId))
  /\ aggOut.res.isValid

\* the rates of the observations handed to calculateDOR
AggRateValues == {aggIn[i].rate.v : i \in 1..Len(aggIn)}

\* C13: for five observations, one per source, with integer rates,
\* calculateDOR returns a number that is neither below the smallest nor
\* above the largest of the five rates.
C13_DORBetweenMinAndMax ==
  (aggOut.kind = "dor" /\ Len(aggIn) = 5) =>
    /\ aggOut.res.t = "num"
    /\ \E lo \in AggRateValues : lo <= aggOut.res.v
    /\ \E hi \in AggRateValues : aggOut.res.v <= hi

\* five observations with different rates were aggregated, and the result
\* lies strictly between the smallest and the largest of them
C13_Witness ==
  /\ aggOut.kind = "dor"
  /\ Len(aggIn) = 5
  /\ \E lo \in AggRateValues : lo < aggOut.res.v
  /\ \E hi \in AggRateValues : aggOut.res.v < hi
  /\ 0 - 1 \in AggRateValues
  /\ maxRate + 1 \in AggRateValues

\* the fixed weight of each source, as the specification lists them
SpecWeight == <<2000, 3000, 2500, 1500, 1000>>

\* rate * weight of the observation of source id in aggIn, 0 when absent
Numerator(id) ==
  IF \E i \in 1..Len(aggIn) : aggIn[i].sourceId = id
    THEN LET i == CHOOSE i \in 1..Len(aggIn) : aggIn[i].sourceId = id
         IN aggIn[i].rate.v * SpecWeight[id + 1]
    ELSE 0

\* weight of source id when aggIn has an observation of it, 0 when absent
Denominator(id) ==
  IF \E i \in 1..Len(aggIn) : aggIn[i].sourceId = id
    THEN SpecWeight[id + 1] ELSE 0

SumOfNumerators ==
  Numerator(TESR) + Numerator(METH) + Numerator(SOFR) + Numerator(AAVE_USDT)
    + Numerator(ONDO_USDY)

SumOfDenominators ==
  Denominator(TESR) + Denominator(METH) + Denominator(SOFR)
    + Denominator(AAVE_USDT) + Denominator(ONDO_USDY)

\* C14: for every non-empty subset of the sources calculateDOR returns the
\* integer nearest to (sum of rate * weight) / (sum of weight), both sums
\* taken over the sources that have an observation: v - 1/2 <= S/W < v + 1/2.
C14_WeightedMeanOverPresentSources ==
  aggOut.kind = "dor" =>
    /\ aggOut.res.t = "num"
    /\ 2 * aggOut.res.v * SumOfDenominators - SumOfDenominators
         <= 2 * SumOfNumerators
    /\ 2 * SumOfNumerators
         < 2 * aggOut.res.v * SumOfDenominators + SumOfDenominators

\* two of the five sources were aggregated and the quotient was not integral
C14_Witness ==
  /\ aggOut.kind = "dor"
  /\ Len(aggIn) = 2
  /\ SumOfNumerators % SumOfDenominators # 0

\* the observation set TESR=350, METH=450, SOFR=460, AAVE_USDT=550,
\* ONDO_USDY=500
ExampleSet ==
  /\ Len(aggIn) = 5
  /\ \A i \in 1..5 : aggIn[i].sourceId = i - 1
  /\ <<aggIn[1].rate, aggIn[2].rate, aggIn[3].rate, aggIn[4].rate,
       aggIn[5].rate>> = <<Num(350), Num(450), Num(460), Num(550), Num(500)>>

\* C15 as amended: for the observation set TESR=350, METH=450, SOFR=460,
\* AAVE_USDT=550, ONDO_USDY=500 calculateDOR yields 453, which is
\* 4525000 / 10000 = 452.5 rounded to the nearest integer.
C15_ExampleYields453 ==
  (aggOut.kind = "dor" /\ ExampleSet) => aggOut.res = Num(453)

\* calculateDOR was applied to the example set
C15_Witness ==
  /\ aggOut.kind = "dor"
  /\ ExampleSet
  /\ SumOfNumerators = 4525000
  /\ SumOfDenominators = 10000

\* C15 as stated: for that observation set calculateDOR yields 445.
C15_ExampleYields445 ==
  (aggOut.kind = "dor" /\ ExampleSet) => aggOut.res = Num(445)

\* aggIn in the order given by the permutation p of its indices
Reordered(p) == [i \in 1..Len(aggIn) |-> aggIn[p[i]]]

\* aggIn with nothing left of an observation but its sourceId and its rate
Stripped ==
  [i \in 1..Len(aggIn) |->
     RateData(aggIn[i].sourceId, "", aggIn[i].rate, 0, "", FALSE)]

\* C16: calculateDOR is a function of the (sourceId, rate) pairs alone: every
\* reordering of the list and the list stripped of isLive, source, name and
\* timestamp give the result of the first call, a second call on the same
\* list returns what the first returned, and a call leaves the list as it
\* was.
C16_DORIsPureFunctionOfPairs ==
  /\ []((aggOut.kind = "dor" /\ aggOut.calls = 1) =>
          /\ \A p \in Permutations(1..Len(aggIn)) :
               calculateDOR(Reordered(p)) = aggOut.res
          /\ calculateDOR(Stripped) = aggOut.res)
  /\ [][aggOut'.kind = "dor" =>
          /\ aggIn' = aggIn
          /\ aggOut.kind = "dor" => aggOut'.res = aggOut.res]_vars

\* calculateDOR was called twice on five observations of different rates,
\* live and not live, of different age
C16_Witness ==
  /\ aggOut.kind = "dor"
  /\ aggOut.calls = 2
  /\ Len(aggIn) = 5
  /\ Cardinality(AggRateValues) >= 4
  /\ \E i, j \in 1..5 : aggIn[i].isLive /\ ~aggIn[j].isLive
  /\ \E i, j \in 1..5 : aggIn[i].timestamp # aggIn[j].timestamp

(***************************************************************************)
(* withRetry around an operation that resolves or rejects as it likes.     *)
(***************************************************************************)
RetryValues == {Num(1), Num(2)}
RetryErrors == {"e1", "e2"}
RetryOutcomes ==
  {Resolved(v) : v \in RetryValues} \cup {Rejected(e) : e \in RetryErrors}

RetryInit ==
  /\ BreakerStart
  /\ now = 0
  /\ AggIdle
  /\ CollectIdle
  /\ RunIdle
  /\ \E n \in 1..MaxRetries :
       \/ rtCfg = [variant |-> "pusher",
                   config |-> [DEFAULT_RETRY_CONFIG EXCEPT !.maxRetries = n]]
       \/ rtCfg = [variant |-> "collectors",
                   config |-> [DEFAULT_CONFIG EXCEPT !.maxRetries = n]]
  /\ rt = retryStart(rtCfg.config.maxRetries)
  /\ rtLog = <<>>

\* `return await fn()` inside the try, and the catch block when it rejects
RetryAttempt ==
  /\ rt.status = "running"
  /\ \E out \in RetryOutcomes :
       /\ rtLog' = Append(rtLog, out)
       /\ rt' = IF rtCfg.variant = "pusher"
                  THEN withRetryPusher(rt, rtCfg.config, out)
                  ELSE withRetryCollectors(rt, rtCfg.config, out)
  /\ UNCHANGED <<now, breakerVars, aggVars, collectVars, rtCfg, runVars>>

RetryNext == RetryAttempt

RetrySpec == RetryInit /\ [][RetryNext]_vars

AllRejected(log) == \A i \in 1..Len(log) : ~log[i].ok

\* C7: when fn() rejects k < maxRetries times and then resolves, withRetry
\* returns that value after exactly k + 1 invocations; it keeps invoking
\* fn() while attempts remain and never invokes it after it resolved.
C7_RetryReturnsFirstSuccess ==
  LET n == Len(rtLog)
      max == rtCfg.config.maxRetries
  IN /\ n <= max
     /\ (AllRejected(rtLog) /\ n < max) => rt.status = "running"
     /\ (n >= 1 /\ rtLog[n].ok) =>
          /\ rt.status = "returned"
          /\ rt.value = rtLog[n].value
     /\ rt.status = "returned" => (n >= 1 /\ rtLog[n].ok)
     /\ \A i \in 1..(n - 1) : ~rtLog[i].ok

C7_Witness ==
  /\ rtCfg.variant = "pusher"
  /\ rtCfg.config.maxRetries = 3
  /\ Len(rtLog) = 3
  /\ ~rtLog[1].ok /\ ~rtLog[2].ok /\ rtLog[3].ok
  /\ rt.status = "returned"

\* C8: when fn() rejects on every attempt, withRetry invokes it exactly
\* maxRetries times, waits after each attempt but the last, and throws the
\* error of the last attempt.
C8_RetryThrowsLastError ==
  LET n == Len(rtLog)
      max == rtCfg.config.maxRetries
  IN /\ (AllRejected(rtLog) /\ n = max) =>
          /\ rt.status = "thrown"
          /\ rt.lastError = rtLog[n].error
          /\ Len(rt.waits) = max - 1
          /\ \A i \in 1..Len(rt.waits) : rt.waits[i].after = i
     /\ rt.status = "thrown" => (AllRejected(rtLog) /\ n = max)

C8_Witness ==
  /\ rtCfg.variant = "pusher"
  /\ rt.status = "thrown"
  /\ Len(rtLog) = 3
  /\ rtLog[1].error # rtLog[3].error
  /\ rt.lastError = rtLog[3].error
  /\ Len(rt.waits) = 2

(***************************************************************************)
(* collectAllRates: the five collectors run as concurrent tasks, each      *)
(* fetch drawing any response; the join reads them once all have settled.  *)
(***************************************************************************)
\* what a fetch can extract: nothing, garbage, Infinity and a percentage
\* (away from the halves, where binary floating point and exact arithmetic
\* could round differently)
FetchValues == {Undefined, NaN, Infinity, Num(4457)}
Responses == {NetworkError} \cup {Body(x) : x \in FetchValues}

CollectInit ==
  /\ BreakerStart
  /\ now = 0
  /\ AggIdle
  /\ RetryIdle
  /\ RunIdle
  /\ col = [id \in RateSourceId |-> collectorStart(DEFAULT_CONFIG)]
  /\ lastFetch = [id \in RateSourceId |-> NoFetch]
  /\ collected = [done |-> FALSE, rates |-> <<>>, outOfOrder |-> FALSE]

\* one axios.get of collector id settles
Fetch(id) ==
  /\ col[id].settled = "pending"
  /\ \E out \in {fetchOutcome(id, col[id].ep, resp) : resp \in Responses} :
       /\ col' = [col EXCEPT
                    ![id] = collectorStep(id, col[id], DEFAULT_CONFIG, out, now)]
       /\ lastFetch' = [lastFetch EXCEPT
                         ![id] = [ep |-> col[id].ep, ok |-> out.ok]]
       /\ collected' = [collected EXCEPT !.outOfOrder =
                          \/ @
                          \/ /\ col'[id].settled # "pending"
                             /\ \E o \in RateSourceId :
                                  o < id /\ col[o].settled = "pending"]
  /\ UNCHANGED <<now, breakerVars, aggVars, retryVars, runVars>>

\* mutant: collectAllRates returns as soon as one collector has settled
CollectAllSettled_Any ==
  /\ ~collected.done
  /\ \E id \in RateSourceId : col[id].settled # "pending"
  /\ collected' = [collected EXCEPT !.done = TRUE,
                                    !.rates = fulfilledUpTo(col, 5)]
  /\ UNCHANGED <<now, breakerVars, aggVars, retryVars, col, lastFetch, runVars>>

\* Promise.allSettled resolves and collectAllRates returns
CollectAllSettled ==
  /\ ~collected.done
  /\ \A id \in RateSourceId : col[id].settled # "pending"
  /\ collected' = [collected EXCEPT !.done = TRUE,
                                    !.rates = fulfilledUpTo(col, 5)]
  /\ UNCHANGED <<now, breakerVars, aggVars, retryVars, col, lastFetch, runVars>>

CollectNext ==
  \/ \E id \in RateSourceId : Fetch(id)
  \/ CollectAllSettled

CollectSpec == CollectInit /\ [][CollectNext]_vars

\* C9: no collector ever raises; a settled collector holds one observation
\* of its own sourceId, and the static fallback (isLive FALSE, source
\* "Fallback") when its fetches failed down to the last endpoint;
\* collectAllRates returns five observations, one per sourceId.
C9_FiveObservationsNoRaise ==
  /\ \A id \in RateSourceId :
       /\ col[id].settled # "rejected"
       /\ col[id].settled = "fulfilled" =>
            /\ col[id].result.sourceId = id
            /\ ~lastFetch[id].ok =>
                 /\ lastFetch[id].ep = Endpoints(id)
                 /\ ~col[id].result.isLive
                 /\ col[id].result.source = "Fallback"
  /\ collected.done =>
       /\ Len(collected.rates) = 5
       /\ \A id \in RateSourceId : collected.rates[id + 1] = col[id].result
       /\ \A id \in RateSourceId : collected.rates[id + 1].sourceId = id

C9_Witness ==
  /\ collected.done
  /\ Len(collected.rates) = 5
  /\ ~lastFetch[ONDO_USDY].ok /\ ~collected.rates[5].isLive
  /\ \A id \in RateSourceId \ {ONDO_USDY} : collected.rates[id + 1].isLive

(***************************************************************************)
(* The oracle process: runUpdate is called again and again (by the CLI or  *)
(* by the cron callback), each call after the previous one has settled.    *)
(* Every action is the code between two awaits of runUpdate and of the     *)
(* RatePusher methods it calls.                                            *)
(***************************************************************************)
\* what collectAllRates can hand back: every collector settles with data,
\* live or its fallback
Collections(t) ==
  { [i \in 1..5 |-> fallbackData(i - 1, t)],
    [i \in 1..5 |-> liveData(i - 1, 1, Num(4457), t)],
    [i \in 1..5 |-> IF i = 1 THEN liveData(TESR, 1, Num(0 - 1000), t)
                    ELSE fallbackData(i - 1, t)] }

\* what the contract's getDOR() can answer
ChainDORs == {Num(447), Num(451)}

\* what provider.getFeeData() can answer
GasPrices == {Num(5), Num(20)}

\* history counters stop at the breaker's threshold
Capped(n) == IF n < failureThreshold THEN n ELSE failureThreshold

Init ==
  /\ BreakerStart
  /\ now = 0
  /\ AggIdle
  /\ RetryIdle
  /\ CollectIdle
  /\ oracleConfig \in Configs
  /\ run = runIdle
  /\ pusher = NoPusher
  /\ hist = NoHistory
  /\ cron = cronIdle

\* runUpdate(dryRun) is called: lines 109-126
RunUpdate(dryRun) ==
  /\ run.pc = "idle"
  /\ hist.cycles < MaxCycles
  /\ run' = [runIdle EXCEPT !.pc = "collectAllRates", !.dryRun = dryRun]
  /\ hist' = [hist EXCEPT !.cycles = @ + 1, !.outcome = "running",
                          !.cycle = NoCycleHistory]
  /\ UNCHANGED <<now, breakerVars, aggVars, retryVars, collectVars,
                 oracleConfig, cron, pusher>>

\* collectAllRates settles: lines 126-174, up to `await pusher.isAuthorized()`
\* or, in a dry run, up to `await pusher.dryRun(rates)`
CollectAllRatesSettles ==
  /\ run.pc = "collectAllRates"
  /\ \E rates \in Collections(now) :
       LET validation == validateRates(rates, now)
           r1 == [run EXCEPT !.rates = rates]
           r2 == [r1 EXCEPT !.dor = calculateDOR(rates)]
           c == oracleConfig
       IN
       IF Len(rates) = 0
         THEN run' = catchBlock(r1, c, "No rates collected")
              /\ UNCHANGED <<pusher, hist>>
       ELSE IF ~validation.isValid
         THEN run' = catchBlock(r1, c, "Validation failed")
              /\ UNCHANGED <<pusher, hist>>
       ELSE IF run.dryRun
         THEN IF c.oracleAddress # "" /\ c.privateKey # ""
                THEN run' = [r2 EXCEPT !.pc = "dryRun"]
                     /\ pusher' = NewRatePusher
                     /\ hist' = [hist EXCEPT !.cycle.authChecks = @ + 1]
                ELSE run' = finallyBlock(r2) /\ UNCHANGED <<pusher, hist>>
       ELSE IF c.oracleAddress = ""
         THEN run' = catchBlock(r2, c, "ORACLE_ADDRESS not set")
              /\ UNCHANGED <<pusher, hist>>
       ELSE IF c.privateKey = ""
         THEN run' = catchBlock(r2, c, "PRIVATE_KEY not set")
              /\ UNCHANGED <<pusher, hist>>
       ELSE run' = [r2 EXCEPT !.pc = "isAuthorized"]
            /\ pusher' = NewRatePusher
            /\ hist' = [hist EXCEPT !.cycle.authChecks = @ + 1]
  /\ UNCHANGED <<now, breakerVars, aggVars, retryVars, collectVars,
                 oracleConfig, cron>>

\* mutant: dryRun goes on into pushBatchRates
DryRunSettles_Pushes ==
  /\ run.pc = "dryRun"
  /\ run' = [run EXCEPT !.pc = "estimateGas",
                        !.retry = retryStart(DEFAULT_RETRY_CONFIG.maxRetries)]
  /\ hist' = [hist EXCEPT !.cycle.gasEstimates = @ + 1,
                          !.cycle.projection = TRUE]
  /\ UNCHANGED <<now, breakerVars, aggVars, retryVars, collectVars,
                 oracleConfig, cron, pusher>>

\* pusher.dryRun(rates) settles, lines 315-353: getCurrentDOR() and
\* getAllSources() answered, "DOR Change: current -> new" was printed and
\* estimateGas was called; or one of the two reads raised and the catch of
\* dryRun logged "Dry run failed". Either way dryRun returns normally.
DryRunSettles ==
  /\ run.pc = "dryRun"
  /\ run' = finallyBlock(run)
  /\ \/ hist' = [hist EXCEPT !.cycle.gasEstimates = @ + 1,
                             !.cycle.projection = TRUE]
     \/ UNCHANGED hist
  /\ UNCHANGED <<now, breakerVars, aggVars, retryVars, collectVars,
                 oracleConfig, cron, pusher>>

\* mutant: the answer of isAuthorized() is not looked at
IsAuthorizedSettles_Ignored ==
  /\ run.pc = "isAuthorized"
  /\ \E isAuth \in BOOLEAN :
       /\ run' = [run EXCEPT !.pc = "getCurrentDOR"]
       /\ hist' = [hist EXCEPT !.cycle.authorized =
                                  IF isAuth THEN "yes" ELSE "no"]
  /\ UNCHANGED <<now, breakerVars, aggVars, retryVars, collectVars,
                 oracleConfig, cron, pusher>>

\* pusher.isAuthorized() settles (false also when the read raised):
\* runUpdate lines 174-180, fullUpdate up to `await this.getCurrentDOR()`
IsAuthorizedSettles ==
  /\ run.pc = "isAuthorized"
  /\ \E isAuth \in BOOLEAN :
       /\ run' = IF ~isAuth
                   THEN catchBlock(run, oracleConfig,
                                   "Wallet is not authorized to update rates")
                   ELSE [run EXCEPT !.pc = "getCurrentDOR"]
       /\ hist' = [hist EXCEPT !.cycle.authorized =
                                  IF isAuth THEN "yes" ELSE "no"]
  /\ UNCHANGED <<now, breakerVars, aggVars, retryVars, collectVars,
                 oracleConfig, cron, pusher>>

\* mutant: a failed read of the on-chain rate is counted by the breaker
OldDORSettles_CountsFailure ==
  /\ run.pc = "getCurrentDOR"
  /\ \/ /\ run' = catchBlock(run, oracleConfig, "getDOR failed")
        /\ pusher' = [pusher EXCEPT !.circuitBreaker = onFailure(@, now)]
        /\ UNCHANGED hist
     \/ \E oldDOR \in ChainDORs :
          LET r == executeEntry(pusher.circuitBreaker, now) IN
          /\ pusher' = [pusher EXCEPT !.circuitBreaker = r.cb]
          /\ IF r.verdict = "admit"
               THEN /\ run' = [run EXCEPT
                                 !.pc = "estimateGas", !.oldDOR = oldDOR,
                                 !.retry =
                                   retryStart(DEFAULT_RETRY_CONFIG.maxRetries)]
                    /\ hist' = [hist EXCEPT !.cycle.gasEstimates = @ + 1]
               ELSE /\ run' = catchBlock([run EXCEPT !.oldDOR = oldDOR,
                                                     !.push = "failed"],
                                         oracleConfig, "Circuit breaker")
                    /\ hist' = [hist EXCEPT !.pushFails = Capped(@ + 1)]
  /\ UNCHANGED <<now, breakerVars, aggVars, retryVars, collectVars,
                 oracleConfig, cron>>

\* the first getCurrentDOR() of fullUpdate settles: lines 280-294, then
\* pushBatchRates and circuitBreaker.execute up to the first await of the
\* fn handed to withRetry
OldDORSettles ==
  /\ run.pc = "getCurrentDOR"
  /\ \/ /\ run' = catchBlock(run, oracleConfig, "getDOR failed")
        /\ UNCHANGED <<pusher, hist>>
     \/ \E oldDOR \in ChainDORs :
          LET r == executeEntry(pusher.circuitBreaker, now) IN
          /\ pusher' = [pusher EXCEPT !.circuitBreaker = r.cb]
          /\ IF r.verdict = "admit"
               THEN /\ run' = [run EXCEPT
                                 !.pc = "estimateGas", !.oldDOR = oldDOR,
                                 !.retry =
                                   retryStart(DEFAULT_RETRY_CONFIG.maxRetries)]
                    /\ hist' = [hist EXCEPT !.cycle.gasEstimates = @ + 1]
               ELSE /\ run' = catchBlock([run EXCEPT !.oldDOR = oldDOR,
                                                     !.push = "failed"],
                                         oracleConfig, "Circuit breaker")
                    /\ hist' = [hist EXCEPT !.pushFails = Capped(@ + 1)]
  /\ UNCHANGED <<now, breakerVars, aggVars, retryVars, collectVars,
                 oracleConfig, cron>>

\* this.estimateGas(rates) settles; it never raises (default 500000n)
EstimateGasSettles ==
  /\ run.pc = "estimateGas"
  /\ run' = [run EXCEPT !.pc = "getFeeData"]
  /\ UNCHANGED <<now, breakerVars, aggVars, retryVars, collectVars,
                 oracleConfig, cron, pusher, hist>>

\* mutant: withRetry gives up at the first error
attemptFails_GivesUp(e, h) ==
  /\ pusher' = [pusher EXCEPT !.circuitBreaker = onFailure(@, now)]
  /\ hist' = [h EXCEPT !.pushFails = Capped(@ + 1), !.lastPushFail = now]
  /\ run' = catchBlock([run EXCEPT !.push = "failed"], oracleConfig, e)

\* mutant: the breaker sits inside the retry loop and counts every attempt
attemptFails_CountsEachAttempt(e, h) ==
  LET r == withRetryPusher(run.retry, DEFAULT_RETRY_CONFIG, Rejected(e)) IN
  /\ pusher' = [pusher EXCEPT !.circuitBreaker = onFailure(@, now)]
  /\ IF r.status = "running"
       THEN /\ run' = [run EXCEPT !.pc = "setTimeout", !.retry = r]
            /\ hist' = h
       ELSE /\ hist' = [h EXCEPT !.pushFails = Capped(@ + 1),
                                 !.lastPushFail = now]
            /\ run' = catchBlock([run EXCEPT !.push = "failed"],
                                 oracleConfig, r.lastError)

\* the fn handed to withRetry has raised e: the rest of the withRetry loop
\* and, when it gives up, the catch of execute() and the catch of runUpdate
\* (h is the history with what the failed attempt did)
attemptFails(e, h) ==
  LET r == withRetryPusher(run.retry, DEFAULT_RETRY_CONFIG, Rejected(e)) IN
  IF r.status = "running"
    THEN /\ run' = [run EXCEPT !.pc = "setTimeout", !.retry = r]
         /\ hist' = h
         /\ UNCHANGED pusher
    ELSE /\ pusher' = [pusher EXCEPT
                         !.circuitBreaker = onFailure(@, now)]
         /\ hist' = [h EXCEPT !.pushFails = Capped(@ + 1),
                              !.lastPushFail = now]
         /\ run' = catchBlock([run EXCEPT !.push = "failed"], oracleConfig,
                              r.lastError)

\* provider.getFeeData() settles: lines 249-258
GetFeeDataSettles ==
  /\ run.pc = "getFeeData"
  /\ \/ attemptFails("getFeeData failed", hist)
     \/ \E gasPrice \in GasPrices :
          IF oracleConfig.maxGasPrice.t # "undef"
             /\ JsGt(gasPrice, oracleConfig.maxGasPrice.v)
            THEN attemptFails("Gas price too high",
                              [hist EXCEPT !.cycle.gasRejected = @ + 1])
            ELSE /\ run' = [run EXCEPT !.pc = "batchUpdateRates"]
                 /\ UNCHANGED <<pusher, hist>>
  /\ UNCHANGED <<now, breakerVars, aggVars, retryVars, collectVars,
                 oracleConfig, cron>>

\* pushBatchRates line 238: rates.map(r => r.sourceId)
sourceIds(rates) == [i \in 1..Len(rates) |-> rates[i].sourceId]

\* mutant: only the rates of live sources are sent
newRates_LiveOnly(rates) ==
  LET live == SelectSeq(rates, LAMBDA r : r.isLive) IN
  [i \in 1..Len(live) |-> live[i].rate]

\* pushBatchRates line 239: rates.map(r => r.rate)
newRates(rates) == [i \in 1..Len(rates) |-> rates[i].rate]

\* contract.batchUpdateRates(sourceIds, newRates, ...) settles: the
\* transaction is submitted or the call raises, lines 258-264
BatchUpdateRatesSettles ==
  /\ run.pc = "batchUpdateRates"
  /\ \/ attemptFails("batchUpdateRates failed", hist)
     \/ /\ run' = [run EXCEPT !.pc = "tx.wait",
                              !.tx = hist.cycle.submitted + 1]
        /\ hist' = [hist EXCEPT
                      !.cycle.submitted = @ + 1,
                      !.cycle.payloads =
                        Append(@, [sourceIds |-> sourceIds(run.rates),
                                   newRates |-> newRates(run.rates)])]
        /\ UNCHANGED pusher
  /\ UNCHANGED <<now, breakerVars, aggVars, retryVars, collectVars,
                 oracleConfig, cron>>

\* tx.wait(1) settles: lines 264-271, then onSuccess of execute() and
\* fullUpdate up to its second `await this.getCurrentDOR()`
TxWaitSettles ==
  /\ run.pc = "tx.wait"
  /\ \/ attemptFails("tx.wait failed", hist)
     \/ attemptFails("Transaction failed", hist)
     \/ /\ run' = [run EXCEPT !.pc = "getCurrentDOR after", !.retry = noRetry,
                              !.push = "succeeded"]
        /\ pusher' = [pusher EXCEPT !.circuitBreaker = onSuccess(@)]
        /\ hist' = [hist EXCEPT !.pushFails = 0]
  /\ UNCHANGED <<now, breakerVars, aggVars, retryVars, collectVars,
                 oracleConfig, cron>>

\* the backoff delay of withRetry has elapsed: the next attempt starts
SetTimeoutFires ==
  /\ run.pc = "setTimeout"
  /\ run' = [run EXCEPT !.pc = "estimateGas"]
  /\ hist' = [hist EXCEPT !.cycle.gasEstimates = @ + 1]
  /\ UNCHANGED <<now, breakerVars, aggVars, retryVars, collectVars,
                 oracleConfig, cron, pusher>>

\* mutant: a read-back more than 5 away from the local value is an error
NewDORSettles_MismatchThrows ==
  /\ run.pc = "getCurrentDOR after"
  /\ \/ /\ run' = catchBlock(run, oracleConfig, "getDOR failed")
        /\ UNCHANGED hist
     \/ \E newDOR \in ChainDORs :
          LET localDOR == calculateDOR(run.rates) IN
          /\ run' = IF newDOR.v - localDOR.v > 5 \/ localDOR.v - newDOR.v > 5
                      THEN catchBlock(run, oracleConfig, "DOR mismatch")
                      ELSE finallyBlock(
                             [run EXCEPT !.pushResult =
                                PushResult(run.tx, run.oldDOR, newDOR,
                                           localDOR)])
          /\ hist' = [hist EXCEPT !.cycle.readBack = newDOR]
  /\ UNCHANGED <<now, breakerVars, aggVars, retryVars, collectVars,
                 oracleConfig, cron, pusher>>

\* the second getCurrentDOR() of fullUpdate settles: lines 297-312 and
\* runUpdate lines 180-187
NewDORSettles ==
  /\ run.pc = "getCurrentDOR after"
  /\ \/ /\ run' = catchBlock(run, oracleConfig, "getDOR failed")
        /\ UNCHANGED hist
     \/ \E newDOR \in ChainDORs :
          /\ run' = finallyBlock(
                      [run EXCEPT !.pushResult =
                         PushResult(run.tx, run.oldDOR, newDOR,
                                    calculateDOR(run.rates))])
          /\ hist' = [hist EXCEPT !.cycle.readBack = newDOR]
  /\ UNCHANGED <<now, breakerVars, aggVars, retryVars, collectVars,
                 oracleConfig, cron, pusher>>

\* the db.log(...) of the catch block settles: lines 195-206; when it raises,
\* its error leaves the catch block instead of the rethrown one
DbLogSettles ==
  /\ run.pc = "db.log"
  /\ \E db \in DbOutcomes :
       run' = IF db = "raises"
                THEN finallyBlock([run EXCEPT !.raised = "db.log failed"])
                ELSE finallyBlock(run)
  /\ UNCHANGED <<now, breakerVars, aggVars, retryVars, collectVars,
                 oracleConfig, cron, pusher, hist>>

\* saveToDatabase(rates, dor, pushResult, updateError) settles, lines 54-102:
\* without a database it returns at once; with one it hands the record of
\* the cycle to db.saveDORUpdate and swallows what the database raises
SaveToDatabaseSettles ==
  /\ run.pc = "saveToDatabase"
  /\ run' = [run EXCEPT !.pc = "settled"]
  /\ LET success == run.updateError = "undefined" /\ run.pushResult.defined
         record == IF success THEN "success" ELSE "failure"
         h == [hist EXCEPT !.cycle.records = @ + 1,
                           !.cycle.recordSuccess = success]
     IN IF oracleConfig.useDatabase
          THEN \E db \in DbOutcomes :
                 hist' = IF db = "raises" THEN h
                         ELSE [h EXCEPT !.saved = record]
          ELSE UNCHANGED hist
  /\ UNCHANGED <<now, breakerVars, aggVars, retryVars, collectVars,
                 oracleConfig, cron, pusher>>

\* the promise of runUpdate settles and its caller logs what it raised
RunUpdateSettles ==
  /\ run.pc = "settled"
  /\ run' = runIdle
  /\ pusher' = NoPusher
  /\ hist' = [hist EXCEPT
                !.outcome = IF run.raised = "none" THEN "success"
                            ELSE "failure",
                !.pushFails = IF run.push = "none" THEN 0 ELSE @,
                !.cycle = NoCycleHistory]
  /\ UNCHANGED <<now, breakerVars, aggVars, retryVars, collectVars,
                 oracleConfig, cron>>

\* a minute passes between two cycles (the awaits of a cycle take less)
ClockTick ==
  /\ now < MaxTicks * TickMs
  /\ run.pc = "idle"
  /\ now' = now + TickMs
  /\ UNCHANGED <<breakerVars, aggVars, retryVars, collectVars, runVars>>

Next ==
  \/ \E dryRun \in BOOLEAN : RunUpdate(dryRun)
  \/ CollectAllRatesSettles
  \/ DryRunSettles
  \/ IsAuthorizedSettles
  \/ OldDORSettles
  \/ EstimateGasSettles
  \/ GetFeeDataSettles
  \/ BatchUpdateRatesSettles
  \/ TxWaitSettles
  \/ SetTimeoutFires
  \/ NewDORSettles
  \/ DbLogSettles
  \/ SaveToDatabaseSettles
  \/ RunUpdateSettles
  \/ ClockTick

Spec == Init /\ [][Next]_vars

\* the cycles when every awaited call settles in the end (the clock plays no
\* part in them)
AwaitSettles ==
  \/ CollectAllRatesSettles
  \/ DryRunSettles
  \/ IsAuthorizedSettles
  \/ OldDORSettles
  \/ EstimateGasSettles
  \/ GetFeeDataSettles
  \/ BatchUpdateRatesSettles
  \/ TxWaitSettles
  \/ SetTimeoutFires
  \/ NewDORSettles
  \/ DbLogSettles
  \/ SaveToDatabaseSettles
  \/ RunUpdateSettles

LiveNext ==
  \/ \E dryRun \in BOOLEAN : RunUpdate(dryRun)
  \/ AwaitSettles

LiveSpec == Init /\ [][LiveNext]_vars /\ WF_vars(AwaitSettles)

\* the same cycles run by a caller whose config carries PushConfig's optional
\* maxGasPrice, which the config object of the entry point never does
CappedConfigs ==
  [oracleAddress : {"0xOracle"}, privateKey : {"0xKey"},
   useDatabase : {TRUE}, maxGasPrice : {Num(10)}]

CappedInit ==
  /\ BreakerStart
  /\ now = 0
  /\ AggIdle
  /\ RetryIdle
  /\ CollectIdle
  /\ oracleConfig \in CappedConfigs
  /\ run = runIdle
  /\ pusher = NoPusher
  /\ hist = NoHistory
  /\ cron = cronIdle

CappedSpec == CappedInit /\ [][Next]_vars

(***************************************************************************)
(* runCron: one initial runUpdate call, awaited, and then one runUpdate    *)
(* call for every tick of the schedule. Every call has its own locals; an  *)
(* action is one call running from one await to the next.                  *)
(***************************************************************************)
\* runUpdate(false) from the await at r.pc to its next await; ok tells
\* whether the awaited call answered well (for collectAllRates: with
\* observations that pass validation)
runUpdateStep(r, cfg, ok) ==
  CASE r.pc = "collectAllRates" ->
         LET rates == IF ok
                        THEN [i \in 1..5 |-> fallbackData(i - 1, now)]
                        ELSE [i \in 1..5 |->
                                IF i = 1
                                  THEN liveData(TESR, 1, Num(0 - 1000), now)
                                  ELSE fallbackData(i - 1, now)]
             r1 == [r EXCEPT !.rates = rates]
             r2 == [r1 EXCEPT !.dor = calculateDOR(rates)]
         IN IF ~validateRates(rates, now).isValid
              THEN catchBlock(r1, cfg, "Validation failed")
            ELSE IF cfg.oracleAddress = ""
              THEN catchBlock(r2, cfg, "ORACLE_ADDRESS not set")
            ELSE IF cfg.privateKey = ""
              THEN catchBlock(r2, cfg, "PRIVATE_KEY not set")
            ELSE [r2 EXCEPT !.pc = "isAuthorized"]
    [] r.pc = "isAuthorized" ->
         IF ok THEN [r EXCEPT !.pc = "getCurrentDOR"]
         ELSE catchBlock(r, cfg, "Wallet is not authorized to update rates")
    [] r.pc = "getCurrentDOR" ->
         IF ok THEN [r EXCEPT !.pc = "pushBatchRates", !.oldDOR = Num(447)]
         ELSE catchBlock(r, cfg, "getDOR failed")
    [] r.pc = "pushBatchRates" ->
         IF ok THEN [r EXCEPT !.pc = "getCurrentDOR after",
                              !.push = "succeeded", !.tx = 1]
         ELSE catchBlock([r EXCEPT !.push = "failed"], cfg,
                         "Transaction failed")
    [] r.pc = "getCurrentDOR after" ->
         IF ok THEN finallyBlock([r EXCEPT !.pushResult =
                                    PushResult(r.tx, r.oldDOR, r.dor, r.dor)])
         ELSE catchBlock(r, cfg, "getDOR failed")
    [] r.pc = "db.log" ->
         IF ok THEN finallyBlock(r)
         ELSE finallyBlock([r EXCEPT !.raised = "db.log failed"])
    [] r.pc = "saveToDatabase" -> [r EXCEPT !.pc = "settled"]
    [] OTHER -> r

\* a runUpdate(false) call at its first await
cronJobStart == [runIdle EXCEPT !.pc = "collectAllRates"]

CronInit ==
  /\ BreakerStart
  /\ now = 0
  /\ AggIdle
  /\ RetryIdle
  /\ CollectIdle
  /\ oracleConfig \in Configs
  /\ run = runIdle
  /\ pusher = NoPusher
  /\ hist = NoHistory
  /\ cron = cronIdle

\* runCron() is called: lines 213-229, up to `await db.connect()` or, with
\* no database, up to the initial `await runUpdate(false)`
RunCron ==
  /\ cron.pc = "idle"
  /\ cron' = IF oracleConfig.useDatabase
               THEN [cron EXCEPT !.pc = "db.connect"]
               ELSE [cron EXCEPT !.pc = "runUpdate", !.jobs[0] = cronJobStart]
  /\ UNCHANGED <<now, breakerVars, aggVars, retryVars, collectVars,
                 oracleConfig, run, pusher, hist>>

\* db.connect() settles, either way: lines 220-229
DbConnectSettles ==
  /\ cron.pc = "db.connect"
  /\ cron' = [cron EXCEPT !.pc = "runUpdate", !.jobs[0] = cronJobStart]
  /\ UNCHANGED <<now, breakerVars, aggVars, retryVars, collectVars,
                 oracleConfig, run, pusher, hist>>

\* an await of the runUpdate call j settles and the call runs to its next
\* await or to its end; when the initial call ends, runCron goes on to
\* cron.schedule (lines 229-242)
CronJobStep(j) ==
  /\ cron.pc \in {"runUpdate", "scheduled"}
  /\ cron.jobs[j].pc # "idle"
  /\ \E ok \in BOOLEAN :
       LET r == runUpdateStep(cron.jobs[j], oracleConfig, ok) IN
       cron' = IF r.pc = "settled"
                 THEN [cron EXCEPT !.jobs[j] = runIdle, !.pc = "scheduled"]
                 ELSE [cron EXCEPT !.jobs[j] = r]
  /\ UNCHANGED <<now, breakerVars, aggVars, retryVars, collectVars,
                 oracleConfig, run, pusher, hist>>

\* the schedule ticks and the callback of cron.schedule calls runUpdate,
\* lines 235-238; nothing in it looks at the calls still under way
CronTick ==
  /\ cron.pc = "scheduled"
  /\ cron.ticks < MaxCycles
  /\ \E j \in CronJobs \ {0} :
       /\ cron.jobs[j].pc = "idle"
       /\ \A k \in 1..(j - 1) : cron.jobs[k].pc # "idle"
       /\ cron' = [cron EXCEPT !.jobs[j] = cronJobStart, !.ticks = @ + 1]
  /\ UNCHANGED <<now, breakerVars, aggVars, retryVars, collectVars,
                 oracleConfig, run, pusher, hist>>

\* SIGINT or SIGTERM: lines 247-261, the process exits
Shutdown ==
  /\ cron.pc = "scheduled"
  /\ cron' = [cron EXCEPT !.pc = "exited",
                          !.jobs = [j \in CronJobs |-> runIdle]]
  /\ UNCHANGED <<now, breakerVars, aggVars, retryVars, collectVars,
                 oracleConfig, run, pusher, hist>>

CronNext ==
  \/ RunCron
  \/ DbConnectSettles
  \/ \E j \in CronJobs : CronJobStep(j)
  \/ CronTick
  \/ Shutdown

CronSpec == CronInit /\ [][CronNext]_vars


\* C6: one circuit breaker guards the push path for the life of the process:
\* once the pushes of three cycles in a row have failed and less than
\* resetTimeoutMs has passed since the last of these failures, no cycle is
\* inside the guarded submit sequence, so no transaction is submitted.
C6_BreakerCarriesOverCycles ==
  (hist.pushFails >= failureThreshold
     /\ now - hist.lastPushFail < resetTimeoutMs)
    => run.pc \notin PushPcs

\* the observations of the cycle under way fail validation as the
\* specification words it: fewer than three of them, or a negative rate
InvalidObservations ==
  /\ run.pc \notin {"idle", "collectAllRates"}
  /\ \/ Len(run.rates) < minSources
     \/ \E i \in 1..Len(run.rates) : JsLt(run.rates[i].rate, 0)

\* C11: a cycle whose observations fail validation issues no authorization
\* check, no gas estimation and no batch-update transaction and ends as a
\* failure; a cycle inside its push phase has observations that are valid.
C11_NoPushAfterInvalidObservations ==
  /\ InvalidObservations =>
       /\ hist.cycle.authChecks = 0
       /\ hist.cycle.authorized = "unknown"
       /\ hist.cycle.gasEstimates = 0
       /\ hist.cycle.gasRejected = 0
       /\ hist.cycle.submitted = 0
       /\ hist.cycle.readBack = Undefined
       /\ ~hist.cycle.projection
       /\ run.pc \in {"db.log", "saveToDatabase", "settled"}
       /\ run.raised # "none"
       /\ ~pusher.constructed
  /\ run.pc \in {"isAuthorized", "getCurrentDOR", "getCurrentDOR after"}
                  \cup PushPcs
       => ~InvalidObservations

\* a live cycle with a negative rate has settled, raising the validation error
C11_Witness ==
  /\ InvalidObservations
  /\ ~run.dryRun
  /\ run.pc = "settled"
  /\ run.updateError = "Validation failed"

\* C17: once the gas price has been found above the configured maximum the
\* push is over: the check is made once in a push, the submit sequence is
\* not entered again and no transaction is submitted after it.
C17_GasCapAbortsWithoutRetry ==
  hist.cycle.gasRejected > 0 =>
    /\ hist.cycle.gasRejected = 1
    /\ run.pc \notin PushPcs
    /\ run.updateError = "Gas price too high"

\* C18: in a live cycle whose wallet is found not authorized the check was
\* made once, no gas estimation is made and no transaction submitted, the
\* breaker of the pusher is as it was constructed, and the cycle fails.
C18_UnauthorizedFailsWithoutRetry ==
  hist.cycle.authorized = "no" =>
    /\ hist.cycle.authChecks = 1
    /\ hist.cycle.gasEstimates = 0
    /\ hist.cycle.submitted = 0
    /\ pusher.circuitBreaker = NewCircuitBreaker
    /\ run.pc \in {"db.log", "saveToDatabase", "settled"}
    /\ run.raised # "none"
    /\ run.push = "none"

\* a cycle has settled after isAuthorized() answered false
C18_Witness ==
  /\ hist.cycle.authorized = "no"
  /\ pusher.constructed
  /\ run.pc = "settled"
  /\ run.updateError = "Wallet is not authorized to update rates"

\* this step is tx.wait(1) settling with no receipt or a failure status
ReceiptFailed ==
  /\ run.pc = "tx.wait"
  /\ \/ run'.retry.lastError = "Transaction failed"
     \/ run'.updateError = "Transaction failed"

\* C19: a receipt with a failure status fails the attempt, not the push: while
\* fewer than 3 attempts were made the cycle goes into the backoff delay and
\* from there into the submit sequence again; at the third attempt the push
\* fails, and the breaker counts one failure. No push makes more than 3
\* attempts.
C19_FailedReceiptIsRetried ==
  /\ [][ReceiptFailed =>
          IF run.retry.attempt < 3
            THEN /\ run'.pc = "setTimeout"
                 /\ run'.retry.attempt = run.retry.attempt + 1
                 /\ run'.push = "none"
                 /\ pusher' = pusher
            ELSE /\ run'.push = "failed"
                 /\ run'.raised # "none"
                 /\ run'.pc \notin PushPcs
                 /\ pusher'.circuitBreaker.failureCount
                      = pusher.circuitBreaker.failureCount + 1]_vars
  /\ [][run.pc = "setTimeout" /\ run'.pc # "setTimeout"
          => run'.pc = "estimateGas" /\ run'.retry = run.retry]_vars
  /\ [](run.retry.attempt <= 3 /\ hist.cycle.submitted <= 3)

\* two receipts of a push carried a failure status and a third transaction
\* has been submitted
C19_Witness ==
  /\ run.pc = "tx.wait"
  /\ run.retry.attempt = 3
  /\ run.retry.lastError = "Transaction failed"
  /\ hist.cycle.submitted = 3

\* the rate read back from the chain after the push is more than 5 bps away
\* from the rate the cycle computed
ReadBackMismatch ==
  /\ hist.cycle.readBack.t = "num"
  /\ \/ hist.cycle.readBack.v - run.dor.v > 5
     \/ run.dor.v - hist.cycle.readBack.v > 5

\* C20: when the rate read back after a confirmed batch update is more than
\* 5 bps away from the local rate, fullUpdate has returned a result with the
\* read-back value as newDOR and the local value as localDOR, the cycle has
\* raised nothing, the push was not retried and the breaker counts no failure.
C20_MismatchStillSucceeds ==
  ReadBackMismatch =>
    /\ run.pushResult.defined
    /\ run.pushResult.newDOR = hist.cycle.readBack
    /\ run.pushResult.localDOR = run.dor
    /\ run.push = "succeeded"
    /\ run.raised = "none"
    /\ run.updateError = "undefined"
    /\ run.pc \in {"saveToDatabase", "settled"}
    /\ run.retry = noRetry
    /\ pusher.circuitBreaker = NewCircuitBreaker

\* a cycle that computed 453 and read 447 back has settled
C20_Witness ==
  /\ ReadBackMismatch
  /\ run.dor.v - hist.cycle.readBack.v = 6
  /\ run.pc = "settled"
  /\ run.pushResult.defined

\* C21: a dry-run cycle submits no transaction, never enters the guarded
\* submit sequence and leaves the breaker of its pusher as constructed; and
\* when it has settled, the projection "DOR Change: current -> new" has been
\* printed, whatever the outcome.
C21_DryRunEndsWithProjection ==
  (run.dryRun /\ run.pc # "idle") =>
    /\ hist.cycle.submitted = 0
    /\ run.pc \notin PushPcs \cup {"isAuthorized", "getCurrentDOR",
                                   "getCurrentDOR after"}
    /\ run.push = "none"
    /\ pusher.circuitBreaker = NewCircuitBreaker
    /\ run.pc = "settled" => hist.cycle.projection

\* C21 as amended: a dry-run cycle submits no transaction, never enters the
\* guarded submit sequence and leaves the breaker of its pusher as
\* constructed, whatever its outcome; the projection is printed only in a
\* cycle whose observations passed validation and whose config has both the
\* oracle address and the key, and such a cycle raises nothing.
C21_DryRunNeverSubmits ==
  (run.dryRun /\ run.pc # "idle") =>
    /\ hist.cycle.submitted = 0
    /\ run.pc \notin PushPcs \cup {"isAuthorized", "getCurrentDOR",
                                   "getCurrentDOR after"}
    /\ run.push = "none"
    /\ pusher.circuitBreaker = NewCircuitBreaker
    /\ hist.cycle.projection =>
         /\ validateRates(run.rates, now).isValid
         /\ oracleConfig.oracleAddress # "" /\ oracleConfig.privateKey # ""
         /\ run.raised = "none"
    /\ run.updateError = "Validation failed" => ~hist.cycle.projection

\* a dry-run cycle has settled after printing its projection
C21_Witness ==
  /\ run.dryRun
  /\ run.pc = "settled"
  /\ hist.cycle.projection
  /\ pusher.constructed
  /\ hist.cycle.submitted = 0

CyclesRunning == {j \in CronJobs : cron.jobs[j].pc # "idle"}

\* C23: in recurring-schedule mode at most one cycle is under way at any
\* time, and so at most one push.
C23_NoOverlappingCycles ==
  /\ Cardinality(CyclesRunning) <= 1
  /\ Cardinality({j \in CronJobs : cron.jobs[j].pc = "pushBatchRates"}) <= 1

\* C24: collectAllRates returns only after all five collectors have settled;
\* a step of one collector (a fetch failing, a retry, a move to the next
\* endpoint) changes no other collector, and the result of a settled
\* collector never changes; the list returned holds the results in the order
\* TESR, METH, SOFR, AAVE_USDT, ONDO_USDY, in whatever order they settled.
C24_CollectorsIndependentFixedOrder ==
  /\ [](collected.done =>
          /\ \A id \in RateSourceId : col[id].settled # "pending"
          /\ collected.rates = [i \in 1..5 |-> col[i - 1].result]
          /\ [i \in 1..5 |-> collected.rates[i].sourceId]
               = <<TESR, METH, SOFR, AAVE_USDT, ONDO_USDY>>)
  /\ [][\A id \in RateSourceId :
          /\ col'[id] # col[id] =>
               \A o \in RateSourceId \ {id} :
                 col'[o] = col[o] /\ lastFetch'[o] = lastFetch[o]
          /\ col[id].settled # "pending" => col'[id] = col[id]]_vars

\* collectAllRates has returned after ONDO_USDY settled live at its first
\* fetch while TESR was still fetching, and TESR ended on its fallback
C24_Witness ==
  /\ collected.done
  /\ collected.outOfOrder
  /\ lastFetch[ONDO_USDY] = [ep |-> 1, ok |-> TRUE]
  /\ collected.rates[5].isLive
  /\ ~collected.rates[1].isLive
  /\ lastFetch[TESR].ep = Endpoints(TESR)

\* a live cycle has run to its end
LiveCycleSettled == ~run.dryRun /\ run.pc = "settled"

\* C25: a live cycle comes to its end, either with a push result (tx id,
\* old and new rate) and nothing raised or with an error raised and no
\* result; if it collected an observation, exactly one record of it has
\* been handed to the database service, with success set exactly when the
\* push returned a result.
C25_OneOutcomeOneRecord ==
  /\ (~run.dryRun /\ run.pc = "collectAllRates") ~> LiveCycleSettled
  /\ [](LiveCycleSettled =>
          /\ run.raised = "none" <=> run.pushResult.defined
          /\ run.pushResult.defined =>
               /\ run.pushResult.txHash > 0
               /\ run.pushResult.oldDOR.t = "num"
               /\ run.pushResult.newDOR.t = "num"
          /\ Len(run.rates) > 0 =>
               /\ hist.cycle.records = 1
               /\ hist.cycle.recordSuccess <=> run.pushResult.defined)

\* C25 as amended: the same, with the record handed over exactly when the
\* database is enabled, and no record otherwise.
C25_OneOutcomeOneRecordIfEnabled ==
  /\ (~run.dryRun /\ run.pc = "collectAllRates") ~> LiveCycleSettled
  /\ [](LiveCycleSettled =>
          /\ run.raised = "none" <=> run.pushResult.defined
          /\ run.pushResult.defined =>
               /\ run.pushResult.txHash > 0
               /\ run.pushResult.oldDOR.t = "num"
               /\ run.pushResult.newDOR.t = "num"
          /\ Len(run.rates) > 0 =>
               /\ hist.cycle.records = IF oracleConfig.useDatabase THEN 1 ELSE 0
               /\ hist.cycle.recordSuccess <=> (oracleConfig.useDatabase
                                                /\ run.pushResult.defined))
  /\ [](hist.cycle.records <= 1)

\* a live cycle whose push failed has settled with its one record handed
\* over, success not set
C25_Witness ==
  /\ LiveCycleSettled
  /\ run.push = "failed"
  /\ run.raised # "none"
  /\ hist.cycle.records = 1
  /\ ~hist.cycle.recordSuccess

\* C26: a collector goes through its endpoints in list order: it moves from
\* endpoint i to i+1, and to no other, only when the last of the maxRetries
\* fetches of endpoint i has failed; once a fetch has succeeded the collector
\* has returned and fetches no more; the observation it returns is live
\* exactly when its last fetch succeeded, and its static fallback otherwise.
C26_EndpointsInListOrder ==
  /\ [][\A id \in RateSourceId :
          /\ (col[id].settled = "pending" /\ col'[id].settled = "pending") =>
               /\ col'[id].ep \in {col[id].ep, col[id].ep + 1}
               /\ col'[id].ep = col[id].ep + 1 =>
                    /\ col[id].retry.attempt = DEFAULT_CONFIG.maxRetries
                    /\ ~lastFetch'[id].ok
                    /\ lastFetch'[id].ep = col[id].ep
                    /\ col'[id].retry.attempt = 1
          /\ col[id].settled # "pending" =>
               (col'[id] = col[id] /\ lastFetch'[id] = lastFetch[id])]_vars
  /\ [](\A id \in RateSourceId :
          /\ col[id].settled = "pending" =>
               (col[id].ep \in 1..Endpoints(id) /\ ~lastFetch[id].ok)
          /\ col[id].settled = "fulfilled" =>
               /\ col[id].result.isLive <=> lastFetch[id].ok
               /\ ~col[id].result.isLive =>
                    /\ col[id].result = fallbackData(id, now)
                    /\ lastFetch[id].ep = Endpoints(id))

\* ONDO_USDY has returned a live observation from its third endpoint
C26_Witness ==
  /\ col[ONDO_USDY].settled = "fulfilled"
  /\ col[ONDO_USDY].result.isLive
  /\ lastFetch[ONDO_USDY] = [ep |-> 3, ok |-> TRUE]

\* C27: the rate of every live observation a collector returns is a finite
\* number: a response with a missing, NaN or infinite rate fails the fetch.
C27_LiveRatesAreFinite ==
  \A id \in RateSourceId :
    (col[id].settled = "fulfilled" /\ col[id].result.isLive) =>
      col[id].result.rate.t = "num"

\* the waits of the push-path withRetry under DEFAULT_RETRY_CONFIG, in ms
PusherWaits == <<2000, 4000, 8000, 16000, 30000, 30000, 30000, 30000>>

\* C28: in the withRetry of the pusher the i-th wait follows the i-th failed
\* attempt, i < maxRetries, and lasts min(baseDelayMs * backoffMultiplier^(i-1),
\* maxDelayMs): with the defaults 2000, 4000, 8000, 16000 and from then on
\* 30000 ms, so 2000 then 4000 for 3 attempts; no wait exceeds maxDelayMs.
C28_PusherBackoffIsCapped ==
  rtCfg.variant = "pusher" =>
    LET c == rtCfg.config IN
    /\ Len(rt.waits) < c.maxRetries
    /\ \A i \in 1..Len(rt.waits) :
         /\ rt.waits[i].after = i
         /\ rt.waits[i].delay =
              Min(c.baseDelayMs * Pow(c.backoffMultiplier, i - 1), c.maxDelayMs)
         /\ rt.waits[i].delay = PusherWaits[i]
         /\ rt.waits[i].delay <= c.maxDelayMs
    /\ (rt.status = "thrown" /\ c.maxRetries = 3) =>
         rt.waits = <<Wait(1, 2000), Wait(2, 4000)>>
    /\ rt.status = "thrown" => Len(rt.waits) = c.maxRetries - 1

\* a push-path withRetry of 7 attempts has waited 30000 ms after its fifth
\* and its sixth failure, where the uncapped delays are 32000 and 64000 ms
C28_Witness ==
  /\ rtCfg.variant = "pusher"
  /\ rt.status = "thrown"
  /\ Len(rt.waits) = 6
  /\ rt.waits[5] = Wait(5, 30000)
  /\ rt.waits[6] = Wait(6, 30000)

\* the waits of the collectors' withRetry under DEFAULT_CONFIG, in ms
CollectorWaits == <<1000, 2000, 4000, 8000, 16000, 32000, 64000, 128000>>

ReadFails ==
  /\ run.pc \in {"getCurrentDOR", "getCurrentDOR after"}
  /\ run'.updateError = "getDOR failed"

C31_OnePushOneBreakerFailure ==
  [][run.pc \in PushPcs =>
       /\ run'.pc \in PushPcs => pusher' = pusher
       /\ run'.push = "failed" =>
            /\ run.retry.attempt = DEFAULT_RETRY_CONFIG.maxRetries
            /\ pusher'.circuitBreaker.failureCount
                 = pusher.circuitBreaker.failureCount + 1
       /\ run'.push = "succeeded" =>
            pusher'.circuitBreaker.failureCount = 0
       /\ run'.push = "none" => pusher' = pusher]_vars

\* a push has failed after three attempts and the breaker counts 1
C31_Witness ==
  /\ run.pc = "settled"
  /\ run.push = "failed"
  /\ hist.cycle.gasEstimates = 3
  /\ pusher.circuitBreaker.failureCount = 1

\* C32: an execute() call refused because the breaker is OPEN changes none
\* of the breaker's fields (state, failureCount, lastFailureTime,
\* halfOpenAttempts) and invokes nothing: the time at which the breaker
\* will admit a probe stays where it was.
C32_OpenRejectionChangesNothing ==
  [][ev'.kind = "reject_open" =>
       /\ cb' = cb
       /\ cb'.state = OPEN
       /\ cb'.lastFailureTime = cb.lastFailureTime
       /\ running' = running]_vars

\* a call has been refused four minutes after the last failure, the breaker
\* still counting from that failure
C32_Witness ==
  /\ ev.kind = "reject_open"
  /\ cb.state = OPEN
  /\ cb.failureCount >= failureThreshold
  /\ now - cb.lastFailureTime = resetTimeoutMs - TickMs

\* execute() calls are strictly sequential: at most one is under way
Sequential == Cardinality(running) <= 1

\* C33: a CLOSED breaker counts fewer than failureThreshold failures, under
\* any interleaving of execute() calls and reset(); and in a behaviour whose
\* execute() calls are strictly sequential an OPEN breaker counts at least
\* failureThreshold failures.
C33_StateMatchesFailureCount ==
  /\ [](cb.state = CLOSED => cb.failureCount < failureThreshold)
  /\ ([]Sequential => [](cb.state = OPEN => cb.failureCount >= failureThreshold))

\* three failures in a row have opened the breaker
C33_Witness ==
  /\ cb.state = OPEN
  /\ cb.failureCount = failureThreshold
  /\ streak = failureThreshold
  /\ running = {}

\* C34: when execute() calls are strictly sequential the breaker is
\* HALF_OPEN only while the probe is under way: the probe leaves it CLOSED
\* when it succeeds and OPEN when it fails; halfOpenAttempts never exceeds 1
\* and no call is refused for too many half-open attempts.
C34_SequentialHalfOpenIsOneProbe ==
  /\ [](cb.state = HALF_OPEN => running # {})
  /\ [](cb.halfOpenAttempts <= 1)
  /\ [](ev.kind # "reject_half_open")
  /\ [][cb.state = HALF_OPEN =>
          /\ ev'.kind = "op_success" => cb'.state = CLOSED
          /\ ev'.kind = "op_failure" => cb'.state = OPEN]_vars

\* the probe of a HALF_OPEN breaker has failed and left it OPEN
C34_Witness ==
  /\ ev.kind = "op_failure"
  /\ ev.probe
  /\ cb.state = OPEN
  /\ cb.halfOpenAttempts = 1
  /\ cb.lastFailureTime = now
  /\ running = {}

\* C35: a live cycle that ends as a failure (runUpdate raises and the record
\* handed to the database has success = false) had no batch-update
\* transaction confirmed with success status.
C35_FailedCycleHasNoConfirmedTx ==
  ( /\ LiveCycleSettled
    /\ run.raised # "none"
    /\ hist.cycle.records = 1
    /\ ~hist.cycle.recordSuccess )
  => run.push # "succeeded"

\* a batch-update transaction is submitted in this step
TxSubmitted == hist'.cycle.submitted > hist.cycle.submitted

\* C36: one push submits at most maxRetries (3) batch-update transactions,
\* one per attempt and each only after every earlier attempt has failed, and
\* none once a transaction has been confirmed with success status; every
\* transaction carries the same sourceIds and newRates, both as long as the
\* cycle's list of rates and entry by entry the sourceId and the rate of the
\* rate at the same position.
C36_PushSubmissions ==
  /\ [](hist.cycle.submitted <= DEFAULT_RETRY_CONFIG.maxRetries)
  /\ [](Len(hist.cycle.payloads) = hist.cycle.submitted)
  /\ [](run.pc = "tx.wait" => hist.cycle.submitted <= run.retry.attempt)
  /\ [][TxSubmitted =>
          /\ run.pc = "batchUpdateRates"
          /\ run'.pc = "tx.wait"
          /\ run.push = "none"
          /\ hist'.cycle.submitted = hist.cycle.submitted + 1
          /\ hist.cycle.submitted < run.retry.attempt]_vars
  /\ [][run.push = "succeeded" => ~TxSubmitted]_vars
  /\ [][run.pc = "tx.wait" /\ run'.pc \in PushPcs =>
          /\ run'.pc = "setTimeout"
          /\ run'.retry.attempt = run.retry.attempt + 1]_vars
  /\ [](\A i \in 1..Len(hist.cycle.payloads) :
          LET p == hist.cycle.payloads[i] IN
          /\ p = hist.cycle.payloads[1]
          /\ Len(p.sourceIds) = Len(run.rates)
          /\ Len(p.newRates) = Len(run.rates)
          /\ \A k \in 1..Len(run.rates) :
               /\ p.sourceIds[k] = run.rates[k].sourceId
               /\ p.newRates[k] = run.rates[k].rate)

\* the third transaction of a push, submitted after two failed attempts, has
\* been confirmed
C36_Witness ==
  /\ run.push = "succeeded"
  /\ hist.cycle.submitted = DEFAULT_RETRY_CONFIG.maxRetries
  /\ Len(hist.cycle.payloads) = 3
  /\ hist.cycle.payloads[3] = hist.cycle.payloads[1]
  /\ Len(hist.cycle.payloads[3].newRates) = 5
  /\ run.pc = "settled"

====
